---------------------------- MODULE Spec2Model ----------------------------
(***************************************************************************)
(* Model of the dependency extraction core of philcom: the npm lockfile    *)
(* parser (NpmParser), the requirements.txt parser with its one-level     *)
(* PyPI expansion (PythonParser, normalizeVersion), and the directory      *)
(* walker / aggregator (getDependencies).                                  *)
(*                                                                         *)
(* A JavaScript string is modelled as a sequence of one-character strings, *)
(* so that startsWith, includes, split, trim and the regular expressions   *)
(* of the source are computed character by character.                      *)
(***************************************************************************)
EXTENDS Integers, Sequences, FiniteSets, TLC

VARIABLES
    nv_pc, nv_input, nv_result,          \* one normalizeVersion call
    st_pc, st_resolved, st_source,       \* one getSourceType call
    lk_graph, lk_nested, lk_flat,        \* one installed tree, parsed from its
                                         \* nested and from its flat lockfile
    gd_root, gd_path,                    \* the file system and the scanned path
    gd_pc,                               \* position of the getDependencies call
    gd_dependencyFiles, gd_fileIndex,    \* the files found and the one in turn
    gd_allDependencies,                  \* the aggregator's map
    gd_outcome,                          \* what the call returned or threw
    gd_emitted,                          \* history: every record a file handed
                                         \* to the merge, in order
    gd_warnings,                         \* history: console.warn calls
    py_directDeps, py_allDeps,           \* the PythonParser call in progress
    py_depIndex,
    py_lookups,                          \* history: registry lookups
    np_file,                             \* the lockfile given to an NpmParser
    np_dependencies,                     \* this.dependencies of the instance
    np_results,                          \* history: what each parse returned
    ys_lines, ys_i,                      \* extractFromYarnLock: lines and loop index
    ys_currentPackage, ys_dependencies,  \* its local and the instance's map
    ys_log                               \* history: one entry per line read

normVars == <<nv_pc, nv_input, nv_result>>
srcVars  == <<st_pc, st_resolved, st_source>>
lockVars == <<lk_graph, lk_nested, lk_flat>>
scanVars == <<gd_root, gd_path, gd_pc, gd_dependencyFiles, gd_fileIndex,
              gd_allDependencies, gd_outcome, gd_emitted, gd_warnings>>
pyVars   == <<py_directDeps, py_allDeps, py_depIndex, py_lookups>>
parserVars == <<np_file, np_dependencies, np_results>>
yarnVars == <<ys_lines, ys_i, ys_currentPackage, ys_dependencies, ys_log>>
vars     == <<normVars, srcVars, lockVars, scanVars, pyVars, parserVars, yarnVars>>

---------------------------------------------------------------------------
(* JavaScript values that are not strings *)

\* `undefined`: an absent optional field or argument
Undefined == <<"undefined">>
\* `null`: the explicit "cannot normalize" / "no match" result
Null == <<"null">>

\* JavaScript truthiness of a string-or-absent value: undefined, null and ""
\* are falsy
Truthy(s) == s # Undefined /\ s # Null /\ s # <<>>

---------------------------------------------------------------------------
(* String primitives *)

\* String.prototype.startsWith
StartsWith(s, p) ==
    /\ Len(p) <= Len(s)
    /\ \A i \in 1..Len(p) : s[i] = p[i]

\* String.prototype.endsWith
EndsWith(s, p) ==
    /\ Len(p) <= Len(s)
    /\ \A i \in 1..Len(p) : s[Len(s) - Len(p) + i] = p[i]

\* String.prototype.includes
Includes(s, p) ==
    \E k \in 0..(Len(s) - Len(p)) : \A i \in 1..Len(p) : s[k + i] = p[i]

\* s.slice(from - 1, to) in 1-based inclusive positions
Slice(s, from, to) == SubSeq(s, from, to)

\* white space as matched by \s and removed by trim()
Space == {" ", "\t"}
IsSpace(c) == c \in Space

\* the character class [0-9]
Digit == {"0", "1", "2", "3", "4", "5", "6", "7", "8", "9"}

\* the character class [0-9.]
DigitOrDot == Digit \cup {"."}

\* end (inclusive) of the maximal run of characters of class C that starts at
\* position i; i - 1 when the run is empty.  A greedy X* / X+ of a regular
\* expression whose continuation cannot start with an X character.
RECURSIVE RunEnd(_, _, _)
RunEnd(s, i, C) ==
    IF i <= Len(s) /\ s[i] \in C THEN RunEnd(s, i + 1, C) ELSE i - 1

\* String.prototype.trim
TrimStart(s) == Slice(s, RunEnd(s, 1, Space) + 1, Len(s))
RECURSIVE TrimEnd(_)
TrimEnd(s) ==
    IF s # <<>> /\ IsSpace(s[Len(s)]) THEN TrimEnd(Slice(s, 1, Len(s) - 1)) ELSE s
Trim(s) == TrimEnd(TrimStart(s))

\* String.prototype.split(sep) for a one-character separator: always at least
\* one piece, pieces may be empty
RECURSIVE SplitFrom(_, _, _, _)
SplitFrom(s, sep, i, cur) ==
    IF i > Len(s) THEN <<cur>>
    ELSE IF s[i] = sep THEN <<cur>> \o SplitFrom(s, sep, i + 1, <<>>)
    ELSE SplitFrom(s, sep, i + 1, Append(cur, s[i]))
Split(s, sep) == SplitFrom(s, sep, 1, <<>>)

\* Array.prototype.join(sep) for a one-character separator
RECURSIVE Join(_, _)
Join(parts, sep) ==
    IF parts = <<>> THEN <<>>
    ELSE IF Len(parts) = 1 THEN parts[1]
    ELSE parts[1] \o <<sep>> \o Join(Tail(parts), sep)

\* all strings over an alphabet of length at most n
StringsUpTo(alphabet, n) == UNION {[1..k -> alphabet] : k \in 0..n}

---------------------------------------------------------------------------
(* PythonParser.normalizeVersion *)

\* the character class [<>=!~,*] of the "already exact" test
IsConstraintChar(c) == c \in {"<", ">", "=", "!", "~", ",", "*"}

HasConstraintChar(version) == \E i \in 1..Len(version) : IsConstraintChar(version[i])

\* while (versionParts.length < 3) versionParts.push('0')
RECURSIVE PadParts(_)
PadParts(versionParts) ==
    IF Len(versionParts) < 3 THEN PadParts(Append(versionParts, <<"0">>))
    ELSE versionParts

\* the wildcard branch: "2.*" -> "2.0.0"
NormalizeWildcard(version) ==
    LET parts == Split(version, ".")
        normalized == Join([i \in 1..Len(parts) |->
                              IF parts[i] = <<"*">> THEN <<"0">> ELSE parts[i]], ".")
        versionParts == Split(normalized, ".")
    IN  Join(PadParts(versionParts), ".")

\* constraint.match(/^>=?\s*([0-9.]+)/): match[1], or Null
MatchLowerBound(constraint) ==
    IF constraint = <<>> \/ constraint[1] # ">" THEN Null
    ELSE LET afterOp == IF Len(constraint) >= 2 /\ constraint[2] = "=" THEN 3 ELSE 2
             numStart == RunEnd(constraint, afterOp, Space) + 1
             numEnd == RunEnd(constraint, numStart, DigitOrDot)
         IN  IF numEnd >= numStart THEN Slice(constraint, numStart, numEnd) ELSE Null

\* constraint.match(/^==\s*([0-9.]+)/): match[1], or Null
MatchExact(constraint) ==
    IF ~StartsWith(constraint, <<"=", "=">>) THEN Null
    ELSE LET numStart == RunEnd(constraint, 3, Space) + 1
             numEnd == RunEnd(constraint, numStart, DigitOrDot)
         IN  IF numEnd >= numStart THEN Slice(constraint, numStart, numEnd) ELSE Null

\* constraint.match(/[0-9]+\.[0-9.]+/): match[0] of the leftmost match, or Null
RECURSIVE MatchAnyVersionFrom(_, _)
MatchAnyVersionFrom(constraint, i) ==
    IF i > Len(constraint) THEN Null
    ELSE LET digitsEnd == RunEnd(constraint, i, Digit)
             restEnd == RunEnd(constraint, digitsEnd + 2, DigitOrDot)
         IN  IF /\ digitsEnd >= i
                /\ digitsEnd + 1 <= Len(constraint)
                /\ constraint[digitsEnd + 1] = "."
                /\ restEnd >= digitsEnd + 2
             THEN Slice(constraint, i, restEnd)
             ELSE MatchAnyVersionFrom(constraint, i + 1)
MatchAnyVersion(constraint) == MatchAnyVersionFrom(constraint, 1)

\* for (const constraint of constraints) { const match = ...; if (match) return ... }
\* over the match results of the constraints, in order
RECURSIVE FirstMatch(_)
FirstMatch(matches) ==
    IF matches = <<>> THEN Null
    ELSE IF matches[1] # Null THEN matches[1]
    ELSE FirstMatch(Tail(matches))

\* the == clause consulted before the lower bound
NormalizeConstraints_ExactFirst(version) ==
    LET pieces == Split(version, ",")
        constraints == [i \in 1..Len(pieces) |-> Trim(pieces[i])]
        lower == FirstMatch([i \in 1..Len(constraints) |-> MatchLowerBound(constraints[i])])
        exact == FirstMatch([i \in 1..Len(constraints) |-> MatchExact(constraints[i])])
        any   == FirstMatch([i \in 1..Len(constraints) |-> MatchAnyVersion(constraints[i])])
    IN  IF exact # Null THEN exact
        ELSE IF lower # Null THEN lower
        ELSE any

NormalizeConstraints(version) ==
    LET pieces == Split(version, ",")
        constraints == [i \in 1..Len(pieces) |-> Trim(pieces[i])]
        lower == FirstMatch([i \in 1..Len(constraints) |-> MatchLowerBound(constraints[i])])
        exact == FirstMatch([i \in 1..Len(constraints) |-> MatchExact(constraints[i])])
        any   == FirstMatch([i \in 1..Len(constraints) |-> MatchAnyVersion(constraints[i])])
    IN  IF lower # Null THEN lower
        ELSE IF exact # Null THEN exact
        ELSE any

\* a variant whose "already exact" test lets the lone wildcard through
normalizeVersion_KeepsStar(version) ==
    IF ~HasConstraintChar(version) \/ version = <<"*">> THEN version
    ELSE IF Includes(version, <<"*">>) THEN NormalizeWildcard(version)
    ELSE NormalizeConstraints(version)

normalizeVersion(version) ==
    IF ~HasConstraintChar(version) THEN version
    ELSE IF Includes(version, <<"*">>) THEN NormalizeWildcard(version)
    ELSE NormalizeConstraints(version)

---------------------------------------------------------------------------
(* NpmParser.getSourceType and NpmParser.isSha512 *)

S_gitPlus      == <<"g","i","t","+">>
S_githubColon  == <<"g","i","t","h","u","b",":">>
S_githubCom    == <<"g","i","t","h","u","b",".","c","o","m">>
S_gitlabColon  == <<"g","i","t","l","a","b",":">>
S_gitlabCom    == <<"g","i","t","l","a","b",".","c","o","m">>
S_bitbucketColon == <<"b","i","t","b","u","c","k","e","t",":">>
S_bitbucketOrg == <<"b","i","t","b","u","c","k","e","t",".","o","r","g">>
S_svnPlus      == <<"s","v","n","+">>
S_http         == <<"h","t","t","p",":","/","/">>
S_https        == <<"h","t","t","p","s",":","/","/">>
S_npmRegistry  == <<"h","t","t","p","s",":","/","/","r","e","g","i","s","t","r","y",".","n","p","m","j","s",".","o","r","g">>
S_yarnRegistry == <<"h","t","t","p","s",":","/","/","r","e","g","i","s","t","r","y",".","y","a","r","n","p","k","g",".","c","o","m">>
S_file         == <<"f","i","l","e",":">>
S_link         == <<"l","i","n","k",":">>
S_sha512       == <<"s","h","a","5","1","2","-">>

\* the github test made before the git+ test
getSourceType_GithubFirst(resolved) ==
    IF ~Truthy(resolved) THEN "unknown"
    ELSE IF StartsWith(resolved, S_githubColon) \/ Includes(resolved, S_githubCom) THEN "github"
    ELSE IF StartsWith(resolved, S_gitPlus) THEN "git"
    ELSE IF StartsWith(resolved, S_gitlabColon) \/ Includes(resolved, S_gitlabCom) THEN "gitlab"
    ELSE IF StartsWith(resolved, S_bitbucketColon) \/ Includes(resolved, S_bitbucketOrg) THEN "bitbucket"
    ELSE IF StartsWith(resolved, S_svnPlus) THEN "svn"
    ELSE IF StartsWith(resolved, S_http) THEN "http"
    ELSE IF StartsWith(resolved, S_npmRegistry) \/ StartsWith(resolved, S_yarnRegistry) THEN "npm"
    ELSE IF StartsWith(resolved, S_https) THEN "https"
    ELSE IF StartsWith(resolved, S_file) THEN "file"
    ELSE IF StartsWith(resolved, S_link) THEN "link"
    ELSE "unknown"

\* PackageSource; the registry origin is spelled 'npm' in the source
getSourceType(resolved) ==
    IF ~Truthy(resolved) THEN "unknown"
    ELSE IF StartsWith(resolved, S_gitPlus) THEN "git"
    ELSE IF StartsWith(resolved, S_githubColon) \/ Includes(resolved, S_githubCom) THEN "github"
    ELSE IF StartsWith(resolved, S_gitlabColon) \/ Includes(resolved, S_gitlabCom) THEN "gitlab"
    ELSE IF StartsWith(resolved, S_bitbucketColon) \/ Includes(resolved, S_bitbucketOrg) THEN "bitbucket"
    ELSE IF StartsWith(resolved, S_svnPlus) THEN "svn"
    ELSE IF StartsWith(resolved, S_http) THEN "http"
    ELSE IF StartsWith(resolved, S_npmRegistry) \/ StartsWith(resolved, S_yarnRegistry) THEN "npm"
    ELSE IF StartsWith(resolved, S_https) THEN "https"
    ELSE IF StartsWith(resolved, S_file) THEN "file"
    ELSE IF StartsWith(resolved, S_link) THEN "link"
    ELSE "unknown"

\* any integrity hash accepted as strong
isSha512_AnyHash(integrity) == Truthy(integrity)

isSha512(integrity) ==
    IF ~Truthy(integrity) THEN FALSE
    ELSE StartsWith(integrity, S_sha512)

---------------------------------------------------------------------------
(* String.prototype.localeCompare, for the characters the model uses *)

\* The root collation order of the characters: blanks and punctuation, then
\* digits, then letters.  An upper-case letter has the primary weight of its
\* lower-case letter and is ordered after it only when the strings are
\* otherwise equal.
CollationOrder == <<
    " ", "_", "-", ",", ";", ":", "!", "?", ".", "'", "(", ")", "[", "]", "@",
    "*", "/", "&", "#", "%", "^", "+", "<", "=", ">", "|", "~", "$",
    "0", "1", "2", "3", "4", "5", "6", "7", "8", "9",
    "a", "b", "c", "d", "e", "f", "g", "h", "i", "j", "k", "l", "m",
    "n", "o", "p", "q", "r", "s", "t", "u", "v", "w", "x", "y", "z" >>

UpperCase == <<
    "A", "B", "C", "D", "E", "F", "G", "H", "I", "J", "K", "L", "M",
    "N", "O", "P", "Q", "R", "S", "T", "U", "V", "W", "X", "Y", "Z" >>

IsUpper(c) == \E i \in 1..Len(UpperCase) : UpperCase[i] = c

\* 38 is the position of "9": the letters follow
ToLower(c) ==
    IF IsUpper(c)
    THEN CollationOrder[38 + (CHOOSE i \in 1..Len(UpperCase) : UpperCase[i] = c)]
    ELSE c

PrimaryWeight(c) ==
    LET lower == ToLower(c)
    IN  CHOOSE i \in 1..Len(CollationOrder) : CollationOrder[i] = lower
TertiaryWeight(c) == IF IsUpper(c) THEN 1 ELSE 0

\* lexicographic comparison of two weight sequences: -1, 0 or 1
RECURSIVE CompareWeights(_, _)
CompareWeights(x, y) ==
    IF x = <<>> /\ y = <<>> THEN 0
    ELSE IF x = <<>> THEN -1
    ELSE IF y = <<>> THEN 1
    ELSE IF x[1] < y[1] THEN -1
    ELSE IF x[1] > y[1] THEN 1
    ELSE CompareWeights(Tail(x), Tail(y))

localeCompare(a, b) ==
    LET primary == CompareWeights([i \in 1..Len(a) |-> PrimaryWeight(a[i])],
                                  [i \in 1..Len(b) |-> PrimaryWeight(b[i])])
    IN  IF primary # 0 THEN primary
        ELSE CompareWeights([i \in 1..Len(a) |-> TertiaryWeight(a[i])],
                            [i \in 1..Len(b) |-> TertiaryWeight(b[i])])

\* the comparator given to Array.prototype.sort by every parser and by
\* getDependencies
CompareDeps(a, b) ==
    LET nameCompare == localeCompare(a.name, b.name)
    IN  IF nameCompare # 0 THEN nameCompare
        ELSE localeCompare(a.version, b.version)

\* Array.prototype.sort is stable: x goes before the first element that
\* compares greater than it
RECURSIVE InsertSorted(_, _)
InsertSorted(sorted, x) ==
    IF sorted = <<>> THEN <<x>>
    ELSE IF CompareDeps(x, sorted[1]) < 0 THEN <<x>> \o sorted
    ELSE <<sorted[1]>> \o InsertSorted(Tail(sorted), x)

RECURSIVE SortFrom(_, _)
SortFrom(list, sorted) ==
    IF list = <<>> THEN sorted
    ELSE SortFrom(Tail(list), InsertSorted(sorted, list[1]))

SortDeps(list) == SortFrom(list, <<>>)

---------------------------------------------------------------------------
(* PythonParser.parseDependencyLine, parseRequirementsTxtDirect and *)
(* parseRequiresDist                                                  *)

\* `null` where a { name, version } object is expected
NoMatch == [null |-> TRUE]

S_hgPlus  == <<"h","g","+">>
S_bzrPlus == <<"b","z","r","+">>
S_at      == <<" ","@"," ">>

\* the character class [a-zA-Z0-9\-_.] of a package name
NameChar ==
    Digit \cup {"-", "_", "."} \cup
    {"a","b","c","d","e","f","g","h","i","j","k","l","m",
     "n","o","p","q","r","s","t","u","v","w","x","y","z",
     "A","B","C","D","E","F","G","H","I","J","K","L","M",
     "N","O","P","Q","R","S","T","U","V","W","X","Y","Z"}

\* the character class [=<>!~] of an operator
OperatorChar == {"=", "<", ">", "!", "~"}

\* position of the first c in s at or after i, 0 if there is none
RECURSIVE IndexFrom(_, _, _)
IndexFrom(s, c, i) ==
    IF i > Len(s) THEN 0
    ELSE IF s[i] = c THEN i
    ELSE IndexFrom(s, c, i + 1)

\* line.replace(/\[.*?\]/, ''): the first [ up to the first ] after it
RemoveExtras(line) ==
    LET open == IndexFrom(line, "[", 1)
        close == IF open = 0 THEN 0 ELSE IndexFrom(line, "]", open + 1)
    IN  IF close = 0 THEN line
        ELSE Slice(line, 1, open - 1) \o Slice(line, close + 1, Len(line))

\* the lazy (.+?) before (\s*;.*)?$ : the shortest non-empty prefix of rest,
\* of length at least k, after which rest ends or continues with blanks
\* and a ";"
RECURSIVE LazyVersionEnd(_, _)
LazyVersionEnd(rest, k) ==
    IF k >= Len(rest) THEN Len(rest)
    ELSE LET semi == RunEnd(rest, k + 1, Space) + 1
         IN  IF semi <= Len(rest) /\ rest[semi] = ";" THEN k
             ELSE LazyVersionEnd(rest, k + 1)

\* withoutExtras.match(/^([a-zA-Z0-9\-_.]+)\s*([=<>!~]+)\s*(.+?)(\s*;.*)?$/):
\* { name: match[1].trim(), version: match[3].trim() }, or null.  The greedy
\* groups take their maximal runs; when nothing is left for (.+?) the second
\* \s*, or else the operator, gives back its last character.
MatchRequirement(withoutExtras) ==
    LET nameEnd == RunEnd(withoutExtras, 1, NameChar)
        opStart == RunEnd(withoutExtras, nameEnd + 1, Space) + 1
        opEnd == RunEnd(withoutExtras, opStart, OperatorChar)
        restStart == RunEnd(withoutExtras, opEnd + 1, Space) + 1
        rest == Slice(withoutExtras, restStart, Len(withoutExtras))
        name == Slice(withoutExtras, 1, nameEnd)
    IN  IF nameEnd < 1 \/ opEnd < opStart THEN NoMatch
        ELSE IF rest # <<>>
            THEN [name |-> name,
                  version |-> Trim(Slice(rest, 1, LazyVersionEnd(rest, 1)))]
        ELSE IF restStart > opEnd + 1
            THEN [name |-> name, version |-> <<>>]
        ELSE IF opEnd > opStart
            THEN [name |-> name, version |-> <<withoutExtras[opEnd]>>]
        ELSE NoMatch

\* withoutExtras.match(/^([a-zA-Z0-9\-_.]+)\s*$/): { name, version: '*' }
MatchNameOnly(withoutExtras) ==
    LET nameEnd == RunEnd(withoutExtras, 1, NameChar)
    IN  IF nameEnd >= 1 /\ RunEnd(withoutExtras, nameEnd + 1, Space) = Len(withoutExtras)
        THEN [name |-> Slice(withoutExtras, 1, nameEnd), version |-> <<"*">>]
        ELSE NoMatch

parseDependencyLine(line) ==
    IF \/ StartsWith(line, S_gitPlus) \/ StartsWith(line, S_hgPlus)
       \/ StartsWith(line, S_svnPlus) \/ StartsWith(line, S_bzrPlus)
       \/ StartsWith(line, S_file) \/ Includes(line, S_at)
    THEN NoMatch
    ELSE LET withoutExtras == RemoveExtras(line)
         IN  IF MatchRequirement(withoutExtras) # NoMatch
             THEN MatchRequirement(withoutExtras)
             ELSE MatchNameOnly(withoutExtras)

\* the body of the loop over the lines of a requirements.txt; the file is
\* given as the sequence of its lines (content.split('\n'))
RECURSIVE DirectLines(_)
DirectLines(lines) ==
    IF lines = <<>> THEN <<>>
    ELSE LET trimmed == Trim(lines[1])
             dep == IF trimmed = <<>> \/ trimmed[1] = "#" \/ trimmed[1] = "-"
                    THEN NoMatch
                    ELSE parseDependencyLine(trimmed)
         IN  (IF dep # NoMatch THEN <<dep>> ELSE <<>>) \o DirectLines(Tail(lines))

parseRequirementsTxtDirect(lines) == SortDeps(DirectLines(lines))

\* req.split(';')[0].trim() when req includes ';', else req itself
RECURSIVE parseRequiresDist(_)
parseRequiresDist(requiresDist) ==
    IF requiresDist = <<>> THEN <<>>
    ELSE LET req == requiresDist[1]
             dep == IF Includes(req, <<";">>)
                    THEN parseDependencyLine(Trim(Split(req, ";")[1]))
                    ELSE parseDependencyLine(req)
         IN  (IF dep # NoMatch THEN <<dep>> ELSE <<>>) \o parseRequiresDist(Tail(requiresDist))

---------------------------------------------------------------------------
(* NpmParser: the dependencies map and the package-lock.json extraction *)

\* A Map<string, Dependency> is the sequence of its entries in insertion
\* order, each [key, value].

\* `${name}@${version}`
DepKey(name, version) == name \o <<"@">> \o version

MapHas(map, key) == \E i \in 1..Len(map) : map[i].key = key

\* Array.from(map.values())
MapValues(map) == [i \in 1..Len(map) |-> map[i].value]

\* a duplicate key overwrites the record already stored
addDependency_Overwrite(dependencies, name, version, resolved, integrity) ==
    LET key == DepKey(name, version)
        entry == [key |-> key,
                  value |-> [name |-> name, version |-> version,
                             sha512 |-> isSha512(integrity),
                             source |-> getSourceType(resolved),
                             resolved |-> resolved]]
    IN  IF MapHas(dependencies, key)
        THEN [i \in 1..Len(dependencies) |->
                 IF dependencies[i].key = key THEN entry ELSE dependencies[i]]
        ELSE Append(dependencies, entry)

\* a variant without the has-check
addDependency_Always(dependencies, name, version, resolved, integrity) ==
    Append(dependencies,
           [key |-> DepKey(name, version),
            value |-> [name |-> name, version |-> version,
                       sha512 |-> isSha512(integrity),
                       source |-> getSourceType(resolved),
                       resolved |-> resolved]])

addDependency(dependencies, name, version, resolved, integrity) ==
    LET key == DepKey(name, version)
    IN  IF MapHas(dependencies, key) THEN dependencies
        ELSE Append(dependencies,
                    [key |-> key,
                     value |-> [name |-> name, version |-> version,
                                sha512 |-> isSha512(integrity),
                                source |-> getSourceType(resolved),
                                resolved |-> resolved]])

getDependencyList(dependencies) == SortDeps(MapValues(dependencies))

S_nodeModules == <<"n","o","d","e","_","m","o","d","u","l","e","s","/">>

\* position of the last "/" of path, 0 if there is none
LastSlash(path) ==
    IF \E i \in 1..Len(path) : path[i] = "/"
    THEN CHOOSE i \in 1..Len(path) :
             path[i] = "/" /\ \A j \in (i + 1)..Len(path) : path[j] # "/"
    ELSE 0

\* path.match(/node_modules\/([^/]+)$/): the capture is the text after the
\* last "/", which must be non-empty and directly preceded by node_modules/
extractNameFromPath(path) ==
    LET slash == LastSlash(path)
    IN  IF /\ slash > 0
           /\ slash < Len(path)
           /\ EndsWith(Slice(path, 1, slash), S_nodeModules)
        THEN Slice(path, slash + 1, Len(path))
        ELSE Null

\* A package descriptor of "packages" (flat schema) is
\* [null, name, version, resolved, integrity]; an entry is [path, pkg].
\* The result is [threw, dependencies]: reading a property of a null
\* descriptor raises a TypeError and leaves the map as filled so far.
RECURSIVE extractFromPackagesV2(_, _)
extractFromPackagesV2(dependencies, packages) ==
    IF packages = <<>> THEN [threw |-> FALSE, dependencies |-> dependencies]
    ELSE LET path == packages[1].path
             pkgData == packages[1].pkg
         IN  IF path = <<>> THEN extractFromPackagesV2(dependencies, Tail(packages))
             ELSE IF pkgData.null THEN [threw |-> TRUE, dependencies |-> dependencies]
             ELSE LET name == IF Truthy(pkgData.name) THEN pkgData.name
                              ELSE extractNameFromPath(path)
                  IN  IF Truthy(name) /\ Truthy(pkgData.version)
                      THEN extractFromPackagesV2(
                               addDependency(dependencies, name, pkgData.version,
                                             pkgData.resolved, pkgData.integrity),
                               Tail(packages))
                      ELSE extractFromPackagesV2(dependencies, Tail(packages))

\* A node of "dependencies" (nested schema) is
\* [null, version, resolved, integrity, dependencies]; an entry is
\* [name, data].  An absent nested map is the empty sequence: both end the
\* descent.
RECURSIVE extractFromDependenciesV1(_, _)
\* a variant that does not descend into the nested dependencies
extractFromDependenciesV1_Shallow(dependencies, entries) ==
    IF entries = <<>> THEN [threw |-> FALSE, dependencies |-> dependencies]
    ELSE LET name == entries[1].name
             depData == entries[1].data
         IN  IF depData.null THEN [threw |-> TRUE, dependencies |-> dependencies]
             ELSE LET own == IF Truthy(depData.version)
                             THEN addDependency(dependencies, name, depData.version,
                                                depData.resolved, depData.integrity)
                             ELSE dependencies
                  IN  extractFromDependenciesV1(own, Tail(entries))

extractFromDependenciesV1(dependencies, entries) ==
    IF entries = <<>> THEN [threw |-> FALSE, dependencies |-> dependencies]
    ELSE LET name == entries[1].name
             depData == entries[1].data
         IN  IF depData.null THEN [threw |-> TRUE, dependencies |-> dependencies]
             ELSE LET own == IF Truthy(depData.version)
                             THEN addDependency(dependencies, name, depData.version,
                                                depData.resolved, depData.integrity)
                             ELSE dependencies
                      nested == extractFromDependenciesV1(own, depData.dependencies)
                  IN  IF nested.threw THEN nested
                      ELSE extractFromDependenciesV1(nested.dependencies, Tail(entries))

\* A package-lock.json is [readable, lockfileVersion, packages,
\* dependencies]: readable is FALSE when readFileSync or JSON.parse throws;
\* lockfileVersion is 0 when the field is absent (undefined >= 2 is false);
\* an absent packages / dependencies field is the empty sequence (|| {}).
\* The result is [threw, dependencies, list].
parsePackageLock(dependencies, content) ==
    IF ~content.readable
    THEN [threw |-> TRUE, dependencies |-> dependencies, list |-> <<>>]
    ELSE LET extracted == IF content.lockfileVersion >= 2
                          THEN extractFromPackagesV2(dependencies, content.packages)
                          ELSE extractFromDependenciesV1(dependencies, content.dependencies)
         IN  [threw |-> extracted.threw,
              dependencies |-> extracted.dependencies,
              list |-> IF extracted.threw THEN <<>>
                       ELSE getDependencyList(extracted.dependencies)]

---------------------------------------------------------------------------
(* NpmParser: yarn.lock and package.json *)

S_version  == <<"v","e","r","s","i","o","n">>
S_versionSpace == <<"v","e","r","s","i","o","n"," ">>

\* the character class [^@\s]
IsNameBody(c) == c # "@" /\ c \notin Space

\* the character class [^",:]
IsRangeBody(c) == c \notin {"\"", ",", ":"}

RECURSIVE NameBodyEnd(_, _)
NameBodyEnd(s, i) ==
    IF i <= Len(s) /\ IsNameBody(s[i]) THEN NameBodyEnd(s, i + 1) ELSE i - 1

RECURSIVE RangeBodyEnd(_, _)
RangeBodyEnd(s, i) ==
    IF i <= Len(s) /\ IsRangeBody(s[i]) THEN RangeBodyEnd(s, i + 1) ELSE i - 1

\* (@?[^@\s]+(?:\/[^@\s]+)?)@[^",:]+[",:] attempted with the group starting
\* at position start: the capture, or Null
HeaderFrom(line, start) ==
    LET bodyStart == IF start <= Len(line) /\ line[start] = "@" THEN start + 1 ELSE start
        bodyEnd == NameBodyEnd(line, bodyStart)
        rangeEnd == RangeBodyEnd(line, bodyEnd + 2)
    IN  IF /\ bodyEnd >= bodyStart
           /\ bodyEnd + 1 <= Len(line) /\ line[bodyEnd + 1] = "@"
           /\ rangeEnd >= bodyEnd + 2
           /\ rangeEnd + 1 <= Len(line) /\ ~IsRangeBody(line[rangeEnd + 1])
        THEN Slice(line, start, bodyEnd)
        ELSE Null

\* a variant whose group starts after the @ of a scope
MatchHeader_Unscoped(line) ==
    LET start == IF line # <<>> /\ line[1] = "\"" /\ HeaderFrom(line, 2) # Null THEN 2 ELSE 1
        name == HeaderFrom(line, start)
    IN  IF name # Null /\ name[1] = "@" THEN Tail(name) ELSE name

\* line.match(/^"?(@?[^@\s]+(?:\/[^@\s]+)?)@[^",:]+[",:]/): match[1], or Null;
\* the optional quote is first taken, then left to the name
MatchHeader(line) ==
    IF line # <<>> /\ line[1] = "\"" /\ HeaderFrom(line, 2) # Null
    THEN HeaderFrom(line, 2)
    ELSE HeaderFrom(line, 1)

\* /version\s+"([^"]+)"/ attempted at position i
VersionAt(trimmed, i) ==
    LET blanksEnd == RunEnd(trimmed, i + 7, Space)
        close == IndexFrom(trimmed, "\"", blanksEnd + 2)
    IN  IF /\ i + 6 <= Len(trimmed)
           /\ Slice(trimmed, i, i + 6) = S_version
           /\ blanksEnd >= i + 7
           /\ blanksEnd + 1 <= Len(trimmed) /\ trimmed[blanksEnd + 1] = "\""
           /\ close > blanksEnd + 2
        THEN Slice(trimmed, blanksEnd + 2, close - 1)
        ELSE Null

\* trimmed.match(/version\s+"([^"]+)"/): match[1] of the leftmost match, or Null
RECURSIVE MatchVersionFrom(_, _)
MatchVersionFrom(trimmed, i) ==
    IF i > Len(trimmed) THEN Null
    ELSE IF VersionAt(trimmed, i) # Null THEN VersionAt(trimmed, i)
    ELSE MatchVersionFrom(trimmed, i + 1)
MatchVersion(trimmed) == MatchVersionFrom(trimmed, 1)

\* a variant that passes an origin and a hash on to addDependency
YarnLine_WithOrigin(state, line) ==
    LET trimmed == Trim(line)
    IN  IF trimmed = <<>> \/ trimmed[1] = "#" THEN state
        ELSE IF ~(line[1] \in Space)
        THEN IF MatchHeader(line) # Null
             THEN [state EXCEPT !.currentPackage = MatchHeader(line)]
             ELSE state
        ELSE IF /\ Truthy(state.currentPackage)
                /\ StartsWith(trimmed, S_versionSpace)
                /\ MatchVersion(trimmed) # Null
        THEN [currentPackage |-> Null,
              dependencies |-> addDependency(state.dependencies, state.currentPackage,
                                             MatchVersion(trimmed), S_yarnRegistry, S_sha512)]
        ELSE state

\* a variant that keeps currentPackage after the addDependency call
YarnLine_NoReset(state, line) ==
    LET trimmed == Trim(line)
    IN  IF trimmed = <<>> \/ trimmed[1] = "#" THEN state
        ELSE IF ~(line[1] \in Space)
        THEN IF MatchHeader(line) # Null
             THEN [state EXCEPT !.currentPackage = MatchHeader(line)]
             ELSE state
        ELSE IF /\ Truthy(state.currentPackage)
                /\ StartsWith(trimmed, S_versionSpace)
                /\ MatchVersion(trimmed) # Null
        THEN [state EXCEPT !.dependencies =
                 addDependency(state.dependencies, state.currentPackage,
                               MatchVersion(trimmed), Undefined, Undefined)]
        ELSE state

\* one iteration of the loop over the lines of a yarn.lock; the scanner
\* state is currentPackage (Null when awaiting a header)
YarnLine(state, line) ==
    LET trimmed == Trim(line)
    IN  IF trimmed = <<>> \/ trimmed[1] = "#" THEN state
        ELSE IF ~(line[1] \in Space)
        THEN IF MatchHeader(line) # Null
             THEN [state EXCEPT !.currentPackage = MatchHeader(line)]
             ELSE state
        ELSE IF /\ Truthy(state.currentPackage)
                /\ StartsWith(trimmed, S_versionSpace)
                /\ MatchVersion(trimmed) # Null
        THEN [currentPackage |-> Null,
              dependencies |-> addDependency(state.dependencies, state.currentPackage,
                                             MatchVersion(trimmed), Undefined, Undefined)]
        ELSE state

RECURSIVE YarnLines(_, _)
YarnLines(state, lines) ==
    IF lines = <<>> THEN state
    ELSE YarnLines(YarnLine(state, lines[1]), Tail(lines))

\* the file is given as the sequence of its lines (content.split('\n'))
extractFromYarnLock(dependencies, lines) ==
    YarnLines([currentPackage |-> Null, dependencies |-> dependencies], lines).dependencies

\* A text file is [readable, lines]; the result is [threw, dependencies, list]
parseYarnLock(dependencies, content) ==
    IF ~content.readable
    THEN [threw |-> TRUE, dependencies |-> dependencies, list |-> <<>>]
    ELSE LET extracted == extractFromYarnLock(dependencies, content.lines)
         IN  [threw |-> FALSE, dependencies |-> extracted,
              list |-> getDependencyList(extracted)]

\* { ...x, ...y } for objects given as sequences of [name, version] entries:
\* a repeated name keeps its first position and takes the later value
RECURSIVE SpreadInto(_, _)
SpreadInto(object, entries) ==
    IF entries = <<>> THEN object
    ELSE LET e == entries[1]
             merged == IF \E i \in 1..Len(object) : object[i].name = e.name
                       THEN [i \in 1..Len(object) |->
                                IF object[i].name = e.name THEN e ELSE object[i]]
                       ELSE Append(object, e)
         IN  SpreadInto(merged, Tail(entries))

\* for (const [name, version] of Object.entries(allDeps)) this.addDependency(name, version)
RECURSIVE AddDeclared(_, _)
AddDeclared(dependencies, allDeps) ==
    IF allDeps = <<>> THEN dependencies
    ELSE AddDeclared(addDependency(dependencies, allDeps[1].name, allDeps[1].version,
                                   Undefined, Undefined),
                     Tail(allDeps))

\* a variant that never looks for the lockfile
parsePackageJson_ManifestOnly(dependencies, content, lock) ==
    IF ~content.readable
    THEN [threw |-> TRUE, dependencies |-> dependencies, list |-> <<>>]
    ELSE LET allDeps == SpreadInto(SpreadInto(SpreadInto(SpreadInto(<<>>,
                            content.dependencies), content.devDependencies),
                            content.peerDependencies), content.optionalDependencies)
             declared == AddDeclared(dependencies, allDeps)
         IN  [threw |-> FALSE, dependencies |-> declared,
              list |-> getDependencyList(declared)]

\* A package.json is [readable, dependencies, devDependencies,
\* peerDependencies, optionalDependencies]; lock is the package-lock.json
\* beside it (not readable when there is none).
parsePackageJson(dependencies, content, lock) ==
    IF ~content.readable
    THEN [threw |-> TRUE, dependencies |-> dependencies, list |-> <<>>]
    ELSE LET allDeps == SpreadInto(SpreadInto(SpreadInto(SpreadInto(<<>>,
                            content.dependencies), content.devDependencies),
                            content.peerDependencies), content.optionalDependencies)
             locked == parsePackageLock(dependencies, lock)
         IN  IF ~locked.threw THEN locked
             ELSE LET declared == AddDeclared(locked.dependencies, allDeps)
                  IN  [threw |-> FALSE, dependencies |-> declared,
                       list |-> getDependencyList(declared)]

---------------------------------------------------------------------------
(* PythonParser.fetchFirstLevelDependencies: the accumulation map *)

\* allDeps is a Map<string, string>: a sequence of [key, value] entries, the
\* key a package name and the value its version

\* Map.prototype.set: a present key keeps its position and takes the value
\* a variant that keeps a list of pairs instead of a map
MapSet_Push(map, key, value) == Append(map, [key |-> key, value |-> value])

MapSet(map, key, value) ==
    IF MapHas(map, key)
    THEN [i \in 1..Len(map) |->
             IF map[i].key = key THEN [key |-> key, value |-> value] ELSE map[i]]
    ELSE Append(map, [key |-> key, value |-> value])

\* the first loop: every direct dependency whose version normalizes
RECURSIVE AddDirect(_, _)
AddDirect(map, deps) ==
    IF deps = <<>> THEN map
    ELSE LET normalizedVersion == normalizeVersion(deps[1].version)
         IN  AddDirect(IF Truthy(normalizedVersion)
                       THEN MapSet(map, deps[1].name, normalizedVersion)
                       ELSE map,
                       Tail(deps))

\* what a lookup returned is dropped
AddTransitive_Nothing(map, subDeps) == map

\* the loop over the dependencies one lookup returned
RECURSIVE AddTransitive(_, _)
AddTransitive(map, subDeps) ==
    IF subDeps = <<>> THEN map
    ELSE LET normalizedSubVersion == normalizeVersion(subDeps[1].version)
         IN  AddTransitive(IF ~MapHas(map, subDeps[1].name) /\ Truthy(normalizedSubVersion)
                           THEN MapSet(map, subDeps[1].name, normalizedSubVersion)
                           ELSE map,
                           Tail(subDeps))

\* no dependency is passed over
SkipsLookup_Never(dep) == FALSE

\* the second loop: if (!normalizedVersion) continue
SkipsLookup(dep) == ~Truthy(normalizeVersion(dep.version))

\* Array.from(allDeps.entries()).map(([name, version]) => ({ name, version })).sort(...)
EntriesToList(map) ==
    SortDeps([i \in 1..Len(map) |-> [name |-> map[i].key, version |-> map[i].value]])

---------------------------------------------------------------------------
(* getDependencies: the file system, the directory walk and the merge *)

F_packageJson  == <<"p","a","c","k","a","g","e",".","j","s","o","n">>
F_packageLock  == <<"p","a","c","k","a","g","e","-","l","o","c","k",".","j","s","o","n">>
F_yarnLock     == <<"y","a","r","n",".","l","o","c","k">>
F_requirements == <<"r","e","q","u","i","r","e","m","e","n","t","s",".","t","x","t">>
D_nodeModules  == <<"n","o","d","e","_","m","o","d","u","l","e","s">>

\* a variant of the list that lacks yarn.lock
supportedFiles_NoYarn == {F_packageJson, F_packageLock, F_requirements}

supportedFiles == {F_packageJson, F_packageLock, F_yarnLock, F_requirements}
targetFiles    == {F_packageJson, F_packageLock, F_yarnLock, F_requirements}

\* A file-system object is [name, kind, ...]: a "file" has a content, a "dir"
\* has readable and entries (in readdir order); a "symlink" without target
\* points nowhere and an "other" is a socket or FIFO.  A path is the sequence of names that
\* leads to an object from the directory the scan is run in.
NoEntry == [name |-> <<>>, kind |-> "missing"]

EntryNamed(entries, name) ==
    IF \E i \in 1..Len(entries) : entries[i].name = name
    THEN entries[CHOOSE i \in 1..Len(entries) : entries[i].name = name]
    ELSE NoEntry

\* A symbolic link with a target points to the object at that path from
\* root; statSync, existsSync and readFileSync follow it.
RECURSIVE ResolveFrom(_, _, _)
ResolveFrom(root, object, filePath) ==
    LET here == IF object.kind = "symlink" /\ "target" \in DOMAIN object
                THEN ResolveFrom(root, root, object.target)
                ELSE object
    IN  IF filePath = <<>> THEN here
        ELSE IF here.kind # "dir" THEN NoEntry
        ELSE ResolveFrom(root, EntryNamed(here.entries, filePath[1]), Tail(filePath))

Resolve(object, filePath) == ResolveFrom(object, object, filePath)

\* existsSync(path): a dangling link does not exist
Exists(object) == object.kind \notin {"missing", "symlink"}

\* readFileSync(filePath, 'utf-8'), with JSON.parse where the caller applies
\* it: not readable when either throws
ReadFile(root, filePath) ==
    LET object == Resolve(root, filePath)
    IN  IF object.kind = "file" THEN object.content ELSE [readable |-> FALSE]

Basename(filePath) == filePath[Len(filePath)]
Dirname(filePath) == SubSeq(filePath, 1, Len(filePath) - 1)

RECURSIVE scanDirectory(_, _)
RECURSIVE ScanEntries(_, _)
\* a variant of the loop that descends into every directory
ScanEntries_NoPrune(entries, currentPath) ==
    IF entries = <<>> THEN <<>>
    ELSE LET entry == entries[1]
             fullPath == Append(currentPath, entry.name)
             found == IF entry.kind = "dir"
                      THEN scanDirectory(entry, fullPath)
                      ELSE IF entry.kind = "file" /\ entry.name \in targetFiles
                      THEN <<fullPath>>
                      ELSE <<>>
         IN  found \o ScanEntries(Tail(entries), currentPath)

\* the loop over the entries of one directory
ScanEntries(entries, currentPath) ==
    IF entries = <<>> THEN <<>>
    ELSE LET entry == entries[1]
             fullPath == Append(currentPath, entry.name)
             found == IF entry.kind = "dir"
                      THEN IF entry.name = D_nodeModules \/ StartsWith(entry.name, <<".">>)
                           THEN <<>>
                           ELSE scanDirectory(entry, fullPath)
                      ELSE IF entry.kind = "file" /\ entry.name \in targetFiles
                      THEN <<fullPath>>
                      ELSE <<>>
         IN  found \o ScanEntries(Tail(entries), currentPath)

\* readdirSync throws on a directory that cannot be read: nothing is found
scanDirectory(directory, currentPath) ==
    IF ~directory.readable THEN <<>>
    ELSE ScanEntries(directory.entries, currentPath)

findDependencyFiles(directory, dirPath) == scanDirectory(directory, dirPath)

\* { ...dep, ecosystem }
WithEcosystem(dep, ecosystem) ==
    IF "sha512" \in DOMAIN dep
    THEN [name |-> dep.name, version |-> dep.version, sha512 |-> dep.sha512,
          source |-> dep.source, resolved |-> dep.resolved, ecosystem |-> ecosystem]
    ELSE [name |-> dep.name, version |-> dep.version, ecosystem |-> ecosystem]

TagAll(deps, ecosystem) == [i \in 1..Len(deps) |-> WithEcosystem(deps[i], ecosystem)]

\* the three branches of parseDependencyFile served by a new NpmParser; the
\* result is [threw, list]
parseDependencyFile(root, filePath) ==
    LET fileName == Basename(filePath)
        parsed == IF fileName = F_packageLock
                  THEN parsePackageLock(<<>>, ReadFile(root, filePath))
                  ELSE IF fileName = F_yarnLock
                  THEN parseYarnLock(<<>>, ReadFile(root, filePath))
                  ELSE IF fileName = F_packageJson
                  THEN parsePackageJson(<<>>, ReadFile(root, filePath),
                                        ReadFile(root, Append(Dirname(filePath), F_packageLock)))
                  ELSE [threw |-> FALSE, list |-> <<>>]
    IN  [threw |-> parsed.threw, list |-> TagAll(parsed.list, "npm")]

\* every record is entered, a repeated key as well
Deduplicate_KeepAll(allDependencies, deps) ==
    allDependencies \o
        [i \in 1..Len(deps) |->
            [key |-> DepKey(deps[i].name, deps[i].version), value |-> deps[i]]]

\* deps.forEach(dep => { if (!allDependencies.has(key)) allDependencies.set(key, dep) })
RECURSIVE Deduplicate(_, _)
Deduplicate(allDependencies, deps) ==
    IF deps = <<>> THEN allDependencies
    ELSE LET key == DepKey(deps[1].name, deps[1].version)
         IN  Deduplicate(IF MapHas(allDependencies, key) THEN allDependencies
                         ELSE Append(allDependencies, [key |-> key, value |-> deps[1]]),
                         Tail(deps))

\* the values are returned in insertion order
SortedValues_Unsorted(allDependencies) == MapValues(allDependencies)

\* Array.from(allDependencies.values()).sort(...)
SortedValues(allDependencies) == SortDeps(MapValues(allDependencies))

---------------------------------------------------------------------------
(* Bounds and inputs *)

\* longest generated version specifier
MaxVerLen == 4

VersionAlphabet == {"1", "2", ".", "*", ">", "=", "<", ",", " "}

ExampleVersions == {
    <<"2",".","*">>,
    <<">","=","1",".","7",".","4",",","!","=","1",".","8",".","1",",","<","3",".","0",".","0">>,
    <<"=","=","1",".","2",".","3">>,
    <<"=","=","1",".","2",",",">","=","2",".","0">>,
    <<"~","=","1",".","4",".","2">>,
    <<"<","3">> }

VersionInputs == StringsUpTo(VersionAlphabet, MaxVerLen) \cup ExampleVersions

\* most fragments concatenated into one generated resolved-origin string
MaxFragments == 2

ResolvedFragments == {
    S_gitPlus, S_githubColon, S_githubCom, S_gitlabColon, S_gitlabCom,
    S_bitbucketColon, S_bitbucketOrg, S_svnPlus, S_http, S_https,
    S_npmRegistry, S_yarnRegistry, S_file, S_link, <<"/", "x">> }

RECURSIVE Concat(_)
Concat(fragments) ==
    IF fragments = <<>> THEN <<>> ELSE fragments[1] \o Concat(Tail(fragments))

R_npmTarball == <<"h","t","t","p","s",":","/","/","r","e","g","i","s","t","r","y",".","n","p","m","j","s",".","o","r","g","/","x","/","-","/","x","-","1",".","0",".","0",".","t","g","z">>
R_gitSsh == <<"g","i","t","+","s","s","h",":","/","/","g","i","t","@","g","i","t","h","u","b",".","c","o","m","/","a","/","b",".","g","i","t">>

ResolvedInputs ==
    {Concat(fs) : fs \in StringsUpTo(ResolvedFragments, MaxFragments)}
        \cup {Undefined, R_npmTarball, R_gitSsh}

\* most packages in one generated installation tree
MaxNodes == 2

N_a      == <<"a">>
N_scoped == <<"@","s","/","n">>
PackageNames == {N_a, N_scoped}
ExactVersions == {<<"1">>, <<"2">>}

I_sha512 == <<"s","h","a","5","1","2","-","A","b","C","=","=">>
I_sha1   == <<"s","h","a","1","-","x","y","z","=","=">>

\* the resolved / integrity fields a lockfile entry carries
EntryMetas == {
    [resolved |-> Undefined,    integrity |-> Undefined],
    [resolved |-> R_npmTarball, integrity |-> I_sha512],
    [resolved |-> R_gitSsh,     integrity |-> I_sha1],
    [resolved |-> Undefined,    integrity |-> <<>>] }

\* An installation tree: a sequence of installed packages, each with the
\* packages installed in its own node_modules.  Forests(n) has at most n
\* packages in all.
RECURSIVE Forests(_)
Forests(n) ==
    IF n = 0 THEN {<<>>}
    ELSE {<<>>} \cup UNION {
        {<<[name |-> nm, version |-> v, resolved |-> meta.resolved,
            integrity |-> meta.integrity, installs |-> inner]>> \o rest :
            nm \in PackageNames, v \in ExactVersions, meta \in EntryMetas,
            inner \in Forests(k - 1), rest \in Forests(n - k)} : k \in 1..n}

\* one node_modules directory holds one package per name
RECURSIVE DistinctSiblings(_)
DistinctSiblings(forest) ==
    /\ \A i, j \in 1..Len(forest) : i # j => forest[i].name # forest[j].name
    /\ \A i \in 1..Len(forest) : DistinctSiblings(forest[i].installs)

InstallGraphs == {g \in Forests(MaxNodes) : DistinctSiblings(g)}

\* the "dependencies" tree npm writes for a graph (lockfileVersion 1)
RECURSIVE NestedEntries(_)
NestedEntries(forest) ==
    [i \in 1..Len(forest) |->
        [name |-> forest[i].name,
         data |-> [null |-> FALSE,
                   version |-> forest[i].version,
                   resolved |-> forest[i].resolved,
                   integrity |-> forest[i].integrity,
                   dependencies |-> NestedEntries(forest[i].installs)]]]

\* the "packages" entries npm writes for a graph (lockfileVersion 2 and 3):
\* one per installed package, keyed by its installation path, without a
\* name field
RECURSIVE FlatEntries(_, _)
FlatEntries(forest, prefix) ==
    IF forest = <<>> THEN <<>>
    ELSE LET path == prefix \o S_nodeModules \o forest[1].name
         IN  <<[path |-> path,
                pkg |-> [null |-> FALSE,
                         name |-> Undefined,
                         version |-> forest[1].version,
                         resolved |-> forest[1].resolved,
                         integrity |-> forest[1].integrity]]>>
             \o FlatEntries(forest[1].installs, path \o <<"/">>)
             \o FlatEntries(Tail(forest), prefix)

\* the entry npm writes for the project itself
RootEntry ==
    [path |-> <<>>,
     pkg |-> [null |-> FALSE, name |-> <<"r","o","o","t">>, version |-> <<"1">>,
              resolved |-> Undefined, integrity |-> Undefined]]

NestedLockfile(graph) ==
    [readable |-> TRUE, lockfileVersion |-> 1,
     packages |-> <<>>, dependencies |-> NestedEntries(graph)]

FlatLockfile(graph) ==
    [readable |-> TRUE, lockfileVersion |-> 2,
     packages |-> <<RootEntry>> \o FlatEntries(graph, <<>>), dependencies |-> <<>>]

\* most lines in one generated requirements.txt
MaxLines == 2

L_flask    == <<"f","l","a","s","k","=","=","2",".","0",".","1">>
L_requests == <<"r","e","q","u","e","s","t","s",">","=","2",".","2","5",".","0">>
L_djangoRange == <<"d","j","a","n","g","o",">","=","3",",","<","4">>
L_django   == <<"d","j","a","n","g","o">>
L_comment  == <<"#"," ","c">>
L_a        == <<"a","=","=","1">>

L_a2       == <<"a","=","=","2">>
L_django2  == <<"d","j","a","n","g","o","=","=","2">>

ManifestLines == {L_flask, L_requests, L_djangoRange, L_django, L_comment, L_a}

\* manifests that declare one name on two lines
RepeatedNames == {<<L_a, L_a2>>, <<L_a2, L_a>>, <<L_django, L_django2>>, <<L_a2, L_flask, L_a>>}

Manifests == StringsUpTo(ManifestLines, MaxLines)

Q_werkzeug == <<"W","e","r","k","z","e","u","g",">","=","2",".","0">>
Q_django   == <<"d","j","a","n","g","o",">","=","3",".","2">>
Q_flask    == <<"f","l","a","s","k",">","=","3",";","x">>
Q_werkzeug3 == <<"W","e","r","k","z","e","u","g","=","=","3">>
Q_aRange   == <<"a","~","=","1",",","<","2">>

\* data.info.requires_dist of a successful answer: nothing, a new package,
\* a package the manifests declare, one with an environment marker, one
\* whose specifier does not normalize, one package twice
Responses == {
    <<>>,
    <<Q_werkzeug>>,
    <<Q_django>>,
    <<Q_flask, Q_werkzeug, Q_werkzeug3>>,
    <<Q_aRange>> }

\* most entries in the generated project directory
MaxEntries == 2

Unreadable == [readable |-> FALSE]
TextFile(lines) == [readable |-> TRUE, lines |-> lines]

File(name, content) == [name |-> name, kind |-> "file", content |-> content]
Dir(name, readable, entries) ==
    [name |-> name, kind |-> "dir", readable |-> readable, entries |-> entries]

N_b == <<"b">>

Installed(name, version, resolved, integrity, installs) ==
    [name |-> name, version |-> version, resolved |-> resolved,
     integrity |-> integrity, installs |-> installs]

\* b installs its own copy of a@1 from git, before the a@1 of the registry
G_shadowed == <<
    Installed(N_b, <<"1">>, Undefined, Undefined,
              <<Installed(N_a, <<"1">>, R_gitSsh, I_sha1, <<>>)>>),
    Installed(N_a, <<"1">>, R_npmTarball, I_sha512, <<>>) >>

G_plain == <<
    Installed(N_a, <<"1">>, Undefined, Undefined, <<>>),
    Installed(N_b, <<"2">>, R_npmTarball, I_sha512, <<>>) >>

\* three levels: a@1 installs b, recorded without a version, which installs
\* @s/n@2 and a copy of a@1 from git
G_deep == <<
    Installed(N_a, <<"1">>, R_npmTarball, I_sha512,
              <<Installed(N_b, Undefined, Undefined, Undefined,
                          <<Installed(N_scoped, <<"2">>, Undefined, Undefined, <<>>),
                            Installed(N_a, <<"1">>, R_gitSsh, I_sha1, <<>>)>>)>>) >>

\* installations beyond the generated ones
SampleGraphs == {G_shadowed, G_plain, G_deep}

\* a lockfile whose second entry is null
PartialLock ==
    [readable |-> TRUE, lockfileVersion |-> 1, packages |-> <<>>,
     dependencies |-> <<
        [name |-> N_a,
         data |-> [null |-> FALSE, version |-> <<"2">>, resolved |-> Undefined,
                   integrity |-> Undefined, dependencies |-> <<>>]],
        [name |-> N_b, data |-> [null |-> TRUE]] >>]

LockFiles == {NestedLockfile(G_shadowed), FlatLockfile(G_plain), PartialLock, Unreadable}

Declared(name, version) == [name |-> name, version |-> version]

PackageJson ==
    [readable |-> TRUE,
     dependencies |-> <<Declared(N_a, <<"^","1">>)>>,
     devDependencies |-> <<Declared(N_b, <<"2">>), Declared(N_a, <<"1">>)>>,
     peerDependencies |-> <<>>,
     optionalDependencies |-> <<>>]

YarnLock == TextFile(<<
    <<"#"," ","y","a","r","n"," ","l","o","c","k","f","i","l","e"," ","v","1">>,
    <<>>,
    <<"a","@","^","1",":">>,
    <<" "," ","v","e","r","s","i","o","n"," ","\"","1","\"">>,
    <<"\"","@","s","/","n","@","^","1","\"",","," ","\"","@","s","/","n","@","^","2","\"",":">>,
    <<" "," ","v","e","r","s","i","o","n"," ","\"","2","\"">> >>)

\* lines of a yarn.lock: two headers, two version lines
Y_a       == <<"a","@","^","1",":">>
Y_scoped  == <<"\"","@","s","/","n","@","^","1","\"",","," ","\"","@","s","/","n","@","^","2","\"",":">>
Y_one     == <<" "," ","v","e","r","s","i","o","n"," ","\"","1","\"">>
Y_two     == <<" "," ","v","e","r","s","i","o","n"," ","\"","2","\"">>

\* most lines in one generated yarn.lock
MaxYarnLines == 3

YarnTexts == {TextFile(lines) : lines \in StringsUpTo({Y_a, Y_scoped, Y_one, Y_two}, MaxYarnLines)}

\* the lockfiles given to one NpmParser: both schemas of every generated
\* installation, a malformed and an unreadable package-lock.json, the
\* generated yarn.lock texts and an unreadable one
ParserFiles ==
    {File(F_packageLock, c) :
        c \in {NestedLockfile(g) : g \in InstallGraphs}
                 \cup {FlatLockfile(g) : g \in InstallGraphs}
                 \cup {PartialLock, Unreadable}}
        \cup {File(F_yarnLock, c) : c \in YarnTexts \cup {YarnLock, Unreadable}}

\* most parse calls in one run
MaxParses == 2

F_readme  == <<"R","E","A","D","M","E",".","m","d">>
D_sub     == <<"s","u","b">>
D_hidden  == <<".","g","i","t">>
F_link    == <<"l","i","n","k">>
F_pipe    == <<"p","i","p","e">>
F_missing == <<"m","i","s","s","i","n","g">>

TopFiles ==
    {File(F_packageLock, c) : c \in LockFiles}
        \cup {File(F_packageJson, PackageJson), File(F_packageJson, Unreadable),
              File(F_yarnLock, YarnLock),
              File(F_requirements, TextFile(<<L_a>>)), File(F_requirements, Unreadable),
              File(F_readme, TextFile(<<>>))}

NestedFiles ==
    {File(F_packageLock, FlatLockfile(G_plain)), File(F_packageJson, PackageJson),
     File(F_requirements, TextFile(<<L_a>>))}

Directories ==
    {Dir(D_sub, TRUE, es) : es \in {<<>>} \cup {<<f>> : f \in NestedFiles}}
        \cup {Dir(D_sub, FALSE, <<>>),
              Dir(D_sub, TRUE,
                  <<Dir(D_nodeModules, TRUE, <<File(F_packageLock, FlatLockfile(G_plain))>>),
                    File(F_packageJson, PackageJson)>>),
              Dir(D_nodeModules, TRUE, <<File(F_packageLock, FlatLockfile(G_plain))>>),
              Dir(D_hidden, TRUE, <<File(F_requirements, TextFile(<<L_a>>))>>)}

Catalogue ==
    TopFiles \cup Directories
        \cup {[name |-> F_link, kind |-> "symlink"], [name |-> F_pipe, kind |-> "other"]}

\* the listings of a directory: no two entries of one name
Listings ==
    {es \in StringsUpTo(Catalogue, MaxEntries) :
        \A i, j \in 1..Len(es) : i # j => es[i].name # es[j].name}

\* a project directory with any listing, or one that cannot be read
ProjectRoots ==
    {Dir(<<>>, TRUE, es) : es \in Listings} \cup {Dir(<<>>, FALSE, <<>>)}

\* a directory that holds only a requirements.txt, with any manifest
ManifestRoots ==
    {Dir(<<>>, TRUE, <<File(F_requirements, TextFile(lines))>>) :
        lines \in Manifests \cup RepeatedNames}

F_loop == <<"l","o","o","p">>

\* a symbolic link to the directory the scan is run in
LoopLink == [name |-> F_loop, kind |-> "symlink", target |-> <<>>]

\* directories that reach themselves through a symbolic link
LoopRoots ==
    {Dir(<<>>, TRUE, <<LoopLink>>),
     Dir(<<>>, TRUE, <<LoopLink, File(F_requirements, TextFile(<<L_a, L_flask>>))>>),
     Dir(<<>>, TRUE, <<Dir(D_sub, TRUE, <<LoopLink, File(F_packageJson, PackageJson)>>),
                       File(F_yarnLock, YarnLock)>>)}

\* the directory itself, one of its entries, or a name it does not hold
ScanPaths(root) ==
    {<<>>, <<F_missing>>} \cup {<<root.entries[i].name>> : i \in 1..Len(root.entries)}

\* the calls: a project directory, with or without a link to itself, scanned
\* at any of its paths, a manifest directory scanned as a whole
Scans ==
    UNION {{<<root, p>> : p \in ScanPaths(root)} : root \in ProjectRoots \cup LoopRoots}
        \cup {<<root, <<>>>> : root \in ManifestRoots}

---------------------------------------------------------------------------
(* Specification of one normalizeVersion call *)

NotParsed == [done |-> FALSE, threw |-> FALSE, list |-> <<>>]

NormIdle == nv_pc = "idle" /\ nv_input = <<>> /\ nv_result = Undefined
SrcIdle  == st_pc = "idle" /\ st_resolved = Undefined /\ st_source = "none"
LockIdle == lk_graph = <<>> /\ lk_nested = NotParsed /\ lk_flat = NotParsed

ParserIdle == np_file = NoEntry /\ np_dependencies = <<>> /\ np_results = <<>>
YarnIdle ==
    /\ ys_lines = <<>> /\ ys_i = 1 /\ ys_currentPackage = Null
    /\ ys_dependencies = <<>> /\ ys_log = <<>>

NoOutcome == [kind |-> "pending", list |-> <<>>, message |-> "none"]

ScanIdle ==
    /\ gd_root = NoEntry /\ gd_path = <<>> /\ gd_pc = "idle"
    /\ gd_dependencyFiles = <<>> /\ gd_fileIndex = 0
    /\ gd_allDependencies = <<>> /\ gd_outcome = NoOutcome
    /\ gd_emitted = <<>> /\ gd_warnings = <<>>
    /\ py_directDeps = <<>> /\ py_allDeps = <<>> /\ py_depIndex = 0
    /\ py_lookups = <<>>

NormInit ==
    /\ nv_pc = "call"
    /\ nv_input \in VersionInputs
    /\ nv_result = Undefined
    /\ SrcIdle /\ LockIdle /\ ScanIdle /\ ParserIdle /\ YarnIdle

NormalizeVersion ==
    /\ nv_pc = "call"
    /\ nv_result' = normalizeVersion(nv_input)
    /\ nv_pc' = "returned"
    /\ UNCHANGED <<nv_input, srcVars, lockVars, scanVars, pyVars, parserVars, yarnVars>>

NormNext == NormalizeVersion

SpecNorm == NormInit /\ [][NormNext]_vars

---------------------------------------------------------------------------
(* Specification of one getSourceType call *)

SrcInit ==
    /\ st_pc = "call"
    /\ st_resolved \in ResolvedInputs
    /\ st_source = "none"
    /\ NormIdle /\ LockIdle /\ ScanIdle /\ ParserIdle /\ YarnIdle

GetSourceType ==
    /\ st_pc = "call"
    /\ st_source' = getSourceType(st_resolved)
    /\ st_pc' = "returned"
    /\ UNCHANGED <<st_resolved, normVars, lockVars, scanVars, pyVars, parserVars, yarnVars>>

SrcNext == GetSourceType

SpecSrc == SrcInit /\ [][SrcNext]_vars

---------------------------------------------------------------------------
(* Specification of parsePackageLock on the two lockfiles of one graph, each *)
(* by a new NpmParser                                                       *)

LockInit ==
    /\ lk_graph \in InstallGraphs \cup SampleGraphs
    /\ lk_nested = NotParsed
    /\ lk_flat = NotParsed
    /\ NormIdle /\ SrcIdle /\ ScanIdle /\ ParserIdle /\ YarnIdle

ParseNestedLock ==
    /\ ~lk_nested.done
    /\ LET r == parsePackageLock(<<>>, NestedLockfile(lk_graph))
       IN  lk_nested' = [done |-> TRUE, threw |-> r.threw, list |-> r.list]
    /\ UNCHANGED <<lk_graph, lk_flat, normVars, srcVars, scanVars, pyVars, parserVars, yarnVars>>

ParseFlatLock ==
    /\ ~lk_flat.done
    /\ LET r == parsePackageLock(<<>>, FlatLockfile(lk_graph))
       IN  lk_flat' = [done |-> TRUE, threw |-> r.threw, list |-> r.list]
    /\ UNCHANGED <<lk_graph, lk_nested, normVars, srcVars, scanVars, pyVars, parserVars, yarnVars>>

LockNext == ParseNestedLock \/ ParseFlatLock

SpecLock == LockInit /\ [][LockNext]_vars

---------------------------------------------------------------------------
(* Specification of NpmParser instances given one lockfile: parse calls on  *)
(* an instance, and new instances as parseDependencyFile makes them         *)

ParserInit ==
    /\ np_file \in ParserFiles
    /\ np_dependencies = <<>>
    /\ np_results = <<>>
    /\ NormIdle /\ SrcIdle /\ LockIdle /\ ScanIdle /\ YarnIdle

\* new NpmParser(): an instance with an empty map
NewNpmParser ==
    /\ np_dependencies # <<>>
    /\ Len(np_results) < MaxParses
    /\ np_dependencies' = <<>>
    /\ UNCHANGED <<np_file, np_results>>
    /\ UNCHANGED <<normVars, srcVars, lockVars, scanVars, pyVars, yarnVars>>

\* parser.parsePackageLock(filePath) on the current instance
ParsePackageLock ==
    /\ np_file.name = F_packageLock
    /\ Len(np_results) < MaxParses
    /\ LET r == parsePackageLock(np_dependencies, np_file.content)
       IN  /\ np_dependencies' = r.dependencies
           /\ np_results' = Append(np_results, [file |-> np_file, threw |-> r.threw,
                                              list |-> r.list])
    /\ UNCHANGED np_file
    /\ UNCHANGED <<normVars, srcVars, lockVars, scanVars, pyVars, yarnVars>>

\* parser.parseYarnLock(filePath) on the current instance
ParseYarnLock ==
    /\ np_file.name = F_yarnLock
    /\ Len(np_results) < MaxParses
    /\ LET r == parseYarnLock(np_dependencies, np_file.content)
       IN  /\ np_dependencies' = r.dependencies
           /\ np_results' = Append(np_results, [file |-> np_file, threw |-> r.threw,
                                              list |-> r.list])
    /\ UNCHANGED np_file
    /\ UNCHANGED <<normVars, srcVars, lockVars, scanVars, pyVars, yarnVars>>

ParserNext == NewNpmParser \/ ParsePackageLock \/ ParseYarnLock

SpecParser == ParserInit /\ [][ParserNext]_vars

----------------------------------------------------------------------------
(* Specification of one NpmParser that is given one lockfile after another  *)

\* the lockfiles a caller passes to the parse methods of one instance
ReuseFiles ==
    {File(F_packageLock, NestedLockfile(G_plain)),
     File(F_packageLock, FlatLockfile(G_shadowed)),
     File(F_packageLock, PartialLock),
     File(F_yarnLock, YarnLock),
     File(F_packageLock, NestedLockfile(G_deep)),
     File(F_yarnLock, TextFile(<<Y_a, Y_two>>)),
     File(F_yarnLock, TextFile(<<Y_scoped, Y_one>>)),
     File(F_yarnLock, Unreadable)}

ReuseInit ==
    /\ np_file \in ReuseFiles
    /\ np_dependencies = <<>>
    /\ np_results = <<>>
    /\ NormIdle /\ SrcIdle /\ LockIdle /\ ScanIdle /\ YarnIdle

\* the caller's next call names another file; the instance is the same
GiveFile ==
    /\ np_results # <<>>
    /\ Len(np_results) < MaxParses
    /\ np_file' \in ReuseFiles \ {np_file}
    /\ UNCHANGED <<np_dependencies, np_results>>
    /\ UNCHANGED <<normVars, srcVars, lockVars, scanVars, pyVars, yarnVars>>

ReuseNext == NewNpmParser \/ GiveFile \/ ParsePackageLock \/ ParseYarnLock

SpecReuse == ReuseInit /\ [][ReuseNext]_vars

----------------------------------------------------------------------------
(* Specification of one extractFromYarnLock call, one line of the file per  *)
(* step                                                                     *)

Y_multi      == <<"b","@","^","1",","," ","a","@","^","2",":">>
Y_blank      == <<>>
Y_comment    == <<"#"," ","c">>
Y_prose      == <<"x">>
Y_resolved   == <<" "," ","r","e","s","o","l","v","e","d"," ","\"">> \o S_yarnRegistry \o <<"a","\"">>
Y_integrity  == <<" "," ","i","n","t","e","g","r","i","t","y"," ">> \o S_sha512 \o <<"x">>
Y_tabVersion == <<"\t","v","e","r","s","i","o","n"," ","\"","3","\"">>
Y_bareVersion == <<" "," ","v","e","r","s","i","o","n"," ","1">>

\* a block as yarn writes it: header, version, resolved, integrity
YarnBlock == <<Y_scoped, Y_one, Y_resolved, Y_integrity>>

\* most lines in one scanned text
MaxScanLines == 3

ScanTexts ==
    StringsUpTo({Y_a, Y_scoped, Y_multi, Y_one, Y_two, Y_blank, Y_comment, Y_prose,
                 Y_resolved, Y_integrity, Y_tabVersion, Y_bareVersion}, MaxScanLines)
        \cup {YarnBlock}

\* const lines = content.split('\n'); currentPackage = null; the map of a
\* new NpmParser
YarnInit ==
    /\ ys_lines \in ScanTexts
    /\ ys_i = 1
    /\ ys_currentPackage = Null
    /\ ys_dependencies = <<>>
    /\ ys_log = <<>>
    /\ NormIdle /\ SrcIdle /\ LockIdle /\ ScanIdle /\ ParserIdle

\* one iteration of the for loop, on lines[i]
YarnStep ==
    LET line == ys_lines[ys_i]
        after == YarnLine([currentPackage |-> ys_currentPackage,
                           dependencies |-> ys_dependencies], line)
    IN  /\ ys_currentPackage' = after.currentPackage
        /\ ys_dependencies' = after.dependencies
        /\ ys_i' = ys_i + 1
        /\ ys_log' = Append(ys_log, [line |-> line,
                                     before |-> ys_currentPackage,
                                     after |-> after.currentPackage,
                                     had |-> ys_dependencies,
                                     has |-> after.dependencies])
        /\ UNCHANGED ys_lines
        /\ UNCHANGED <<normVars, srcVars, lockVars, scanVars, pyVars, parserVars>>

Unindented(line) == ~StartsWith(line, <<" ">>) /\ ~StartsWith(line, <<"\t">>)

\* if (!trimmed || trimmed.startsWith('#')) continue
SkipLine ==
    /\ ys_i <= Len(ys_lines)
    /\ LET trimmed == Trim(ys_lines[ys_i])
       IN  trimmed = <<>> \/ StartsWith(trimmed, <<"#">>)
    /\ YarnStep

Skipped(line) == Trim(line) = <<>> \/ StartsWith(Trim(line), <<"#">>)

\* an unindented line that the header pattern matches
HeaderLine ==
    /\ ys_i <= Len(ys_lines)
    /\ ~Skipped(ys_lines[ys_i])
    /\ Unindented(ys_lines[ys_i])
    /\ MatchHeader(ys_lines[ys_i]) # Null
    /\ YarnStep

\* an unindented line that the header pattern does not match
UnmatchedLine ==
    /\ ys_i <= Len(ys_lines)
    /\ ~Skipped(ys_lines[ys_i])
    /\ Unindented(ys_lines[ys_i])
    /\ MatchHeader(ys_lines[ys_i]) = Null
    /\ YarnStep

\* else if (currentPackage && trimmed.startsWith('version ')) with a match
VersionLine ==
    /\ ys_i <= Len(ys_lines)
    /\ ~Skipped(ys_lines[ys_i])
    /\ ~Unindented(ys_lines[ys_i])
    /\ Truthy(ys_currentPackage)
    /\ StartsWith(Trim(ys_lines[ys_i]), S_versionSpace)
    /\ MatchVersion(Trim(ys_lines[ys_i])) # Null
    /\ YarnStep

\* any other indented line: the loop goes on to the next line
IndentedLine ==
    /\ ys_i <= Len(ys_lines)
    /\ ~Skipped(ys_lines[ys_i])
    /\ ~Unindented(ys_lines[ys_i])
    /\ ~(/\ Truthy(ys_currentPackage)
         /\ StartsWith(Trim(ys_lines[ys_i]), S_versionSpace)
         /\ MatchVersion(Trim(ys_lines[ys_i])) # Null)
    /\ YarnStep

YarnNext == SkipLine \/ HeaderLine \/ UnmatchedLine \/ VersionLine \/ IndentedLine

SpecYarn == YarnInit /\ [][YarnNext]_vars

---------------------------------------------------------------------------
(* Specification of one getDependencies call: the walk, then one file after *)
(* the other, a requirements.txt with one registry lookup at a time         *)

Init ==
    /\ \E scan \in Scans : gd_root = scan[1] /\ gd_path = scan[2]
    /\ gd_pc = "start"
    /\ gd_dependencyFiles = <<>>
    /\ gd_fileIndex = 0
    /\ gd_allDependencies = <<>>
    /\ gd_outcome = NoOutcome
    /\ gd_emitted = <<>>
    /\ gd_warnings = <<>>
    /\ py_directDeps = <<>>
    /\ py_allDeps = <<>>
    /\ py_depIndex = 0
    /\ py_lookups = <<>>
    /\ NormIdle /\ SrcIdle /\ LockIdle /\ ParserIdle /\ YarnIdle

Threw(message) == [kind |-> "threw", list |-> <<>>, message |-> message]
Returned(list) == [kind |-> "returned", list |-> list, message |-> "none"]

\* the file in turn
CurrentFile == gd_dependencyFiles[gd_fileIndex]

\* the records of a file on their way into the merge
Emitted(deps) == [i \in 1..Len(deps) |-> [file |-> gd_fileIndex, dep |-> deps[i]]]

\* where the call stands: before its first statement, at a file of the loop
\* over the files, after that loop, at a dependency of the second loop of
\* fetchFirstLevelDependencies, at the await of a lookup or of the timer,
\* after the second loop
AtStart == gd_pc = "start"
AtNpmFile ==
    /\ gd_pc = "files"
    /\ gd_fileIndex <= Len(gd_dependencyFiles)
    /\ Basename(CurrentFile) # F_requirements
AtRequirementsTxt ==
    /\ gd_pc = "files"
    /\ gd_fileIndex <= Len(gd_dependencyFiles)
    /\ Basename(CurrentFile) = F_requirements
AfterFiles == gd_pc = "files" /\ gd_fileIndex > Len(gd_dependencyFiles)
AtDependency == gd_pc = "lookup" /\ py_depIndex <= Len(py_directDeps)
AwaitingLookup == gd_pc = "fetching"
AwaitingTimer == gd_pc = "delay"
AfterDependencies == gd_pc = "lookup" /\ py_depIndex > Len(py_directDeps)

\* existsSync, statSync and the choice of the files to parse
GetDependencies ==
    /\ AtStart
    /\ LET stats == Resolve(gd_root, gd_path)
           found == IF stats.kind = "dir" THEN findDependencyFiles(stats, gd_path) ELSE <<gd_path>>
           outcome ==
               IF ~Exists(stats) THEN Threw("Path not found")
               ELSE IF stats.kind = "file"
               THEN IF Basename(gd_path) \notin supportedFiles
                    THEN Threw("Unsupported file type")
                    ELSE NoOutcome
               ELSE IF stats.kind = "dir"
               THEN IF found = <<>> THEN Returned(<<>>) ELSE NoOutcome
               ELSE Threw("Path is neither a file nor a directory")
       IN  /\ gd_outcome' = outcome
           /\ gd_dependencyFiles' = IF outcome = NoOutcome THEN found ELSE <<>>
           /\ gd_fileIndex' = IF outcome = NoOutcome THEN 1 ELSE 0
           /\ gd_pc' = IF outcome = NoOutcome THEN "files" ELSE "done"
           /\ gd_warnings' =
                  IF Exists(stats) /\ stats.kind = "dir" /\ found = <<>>
                  THEN Append(gd_warnings, [file |-> 0, about |-> "No dependency files found"])
                  ELSE gd_warnings
    /\ UNCHANGED <<gd_root, gd_path, gd_allDependencies, gd_emitted>>
    /\ UNCHANGED <<normVars, srcVars, lockVars, parserVars, yarnVars, pyVars>>

\* a variant in which a file that cannot be parsed ends the scan in an error
ParseNpmFile_Aborts ==
    /\ gd_pc = "files"
    /\ gd_fileIndex <= Len(gd_dependencyFiles)
    /\ Basename(CurrentFile) # F_requirements
    /\ LET parsed == parseDependencyFile(gd_root, CurrentFile)
       IN  IF parsed.threw
           THEN /\ gd_outcome' = Threw("Could not parse")
                /\ gd_pc' = "done"
                /\ UNCHANGED <<gd_allDependencies, gd_emitted>>
           ELSE /\ gd_allDependencies' = Deduplicate(gd_allDependencies, parsed.list)
                /\ gd_emitted' = gd_emitted \o Emitted(parsed.list)
                /\ UNCHANGED <<gd_outcome, gd_pc>>
    /\ gd_fileIndex' = gd_fileIndex + 1
    /\ UNCHANGED <<gd_root, gd_path, gd_dependencyFiles, gd_warnings>>
    /\ UNCHANGED <<normVars, srcVars, lockVars, parserVars, yarnVars, pyVars>>

\* one iteration of the loop over the files, for a file an NpmParser reads
ParseNpmFile ==
    /\ AtNpmFile
    /\ LET parsed == parseDependencyFile(gd_root, CurrentFile)
       IN  IF parsed.threw
           THEN /\ gd_warnings' = Append(gd_warnings,
                                         [file |-> gd_fileIndex, about |-> "Could not parse"])
                /\ UNCHANGED <<gd_allDependencies, gd_emitted>>
           ELSE /\ gd_allDependencies' = Deduplicate(gd_allDependencies, parsed.list)
                /\ gd_emitted' = gd_emitted \o Emitted(parsed.list)
                /\ UNCHANGED gd_warnings
    /\ gd_fileIndex' = gd_fileIndex + 1
    /\ UNCHANGED <<gd_root, gd_path, gd_pc, gd_dependencyFiles, gd_outcome>>
    /\ UNCHANGED <<normVars, srcVars, lockVars, parserVars, yarnVars, pyVars>>

\* parseRequirementsTxt up to the first lookup: the direct dependencies and
\* the first loop of fetchFirstLevelDependencies
ParseRequirementsTxt ==
    /\ AtRequirementsTxt
    /\ LET content == ReadFile(gd_root, CurrentFile)
           directDeps == IF content.readable
                         THEN parseRequirementsTxtDirect(content.lines) ELSE <<>>
       IN  IF ~content.readable
           THEN /\ gd_warnings' = Append(gd_warnings,
                                         [file |-> gd_fileIndex, about |-> "Could not parse"])
                /\ gd_fileIndex' = gd_fileIndex + 1
                /\ UNCHANGED <<gd_pc, py_directDeps, py_allDeps, py_depIndex>>
           ELSE IF directDeps = <<>>
           THEN /\ gd_fileIndex' = gd_fileIndex + 1
                /\ UNCHANGED <<gd_pc, gd_warnings, py_directDeps, py_allDeps, py_depIndex>>
           ELSE /\ py_directDeps' = directDeps
                /\ py_allDeps' = AddDirect(<<>>, directDeps)
                /\ py_depIndex' = 1
                /\ gd_pc' = "lookup"
                /\ UNCHANGED <<gd_fileIndex, gd_warnings>>
    /\ UNCHANGED <<gd_root, gd_path, gd_dependencyFiles, gd_allDependencies,
                   gd_outcome, gd_emitted, py_lookups>>
    /\ UNCHANGED <<normVars, srcVars, lockVars, parserVars, yarnVars>>

\* the second loop, at a dependency whose version does not normalize: continue
SkipDependency ==
    /\ AtDependency
    /\ SkipsLookup(py_directDeps[py_depIndex])
    /\ py_depIndex' = py_depIndex + 1
    /\ UNCHANGED <<py_directDeps, py_allDeps, py_lookups>>
    /\ UNCHANGED <<normVars, srcVars, lockVars, parserVars, yarnVars, scanVars>>

\* a variant in which the requests of all the dependencies that are left
\* leave together
FetchPyPIDependencies_AllAtOnce ==
    /\ gd_pc = "lookup"
    /\ py_depIndex <= Len(py_directDeps)
    /\ ~SkipsLookup(py_directDeps[py_depIndex])
    /\ LET left == SelectSeq(SubSeq(py_directDeps, py_depIndex, Len(py_directDeps)),
                             LAMBDA dep : ~SkipsLookup(dep))
       IN  py_lookups' = py_lookups \o
               [i \in 1..Len(left) |->
                   [file |-> gd_fileIndex, packageName |-> left[i].name,
                    version |-> normalizeVersion(left[i].version), outcome |-> "pending",
                    requiresDist |-> <<>>, added |-> <<>>,
                    allDeps |-> py_allDeps, delayed |-> FALSE]]
    /\ gd_pc' = "fetching"
    /\ UNCHANGED <<py_directDeps, py_allDeps, py_depIndex>>
    /\ UNCHANGED <<gd_root, gd_path, gd_dependencyFiles, gd_fileIndex,
                   gd_allDependencies, gd_outcome, gd_emitted, gd_warnings>>
    /\ UNCHANGED <<normVars, srcVars, lockVars, parserVars, yarnVars>>

\* the second loop, at a dependency whose version normalizes: the request
\* of fetchPyPIDependencies leaves
FetchPyPIDependencies ==
    /\ AtDependency
    /\ LET dep == py_directDeps[py_depIndex]
           normalizedVersion == normalizeVersion(dep.version)
       IN  /\ ~SkipsLookup(dep)
           /\ py_lookups' = Append(py_lookups,
                  [file |-> gd_fileIndex, packageName |-> dep.name,
                   version |-> normalizedVersion, outcome |-> "pending",
                   requiresDist |-> <<>>, added |-> <<>>,
                   allDeps |-> py_allDeps, delayed |-> FALSE])
    /\ gd_pc' = "fetching"
    /\ UNCHANGED <<py_directDeps, py_allDeps, py_depIndex>>
    /\ UNCHANGED <<gd_root, gd_path, gd_dependencyFiles, gd_fileIndex,
                   gd_allDependencies, gd_outcome, gd_emitted, gd_warnings>>
    /\ UNCHANGED <<normVars, srcVars, lockVars, parserVars, yarnVars>>

\* the names of the entries of after that before does not have
NewKeys(before, after) ==
    [i \in 1..(Len(after) - Len(before)) |-> after[Len(before) + i].key]

\* the registry answers: the requirements are parsed and entered, and the
\* 100 ms timer is set
LookupReturns ==
    /\ AwaitingLookup
    /\ \E requiresDist \in Responses :
          LET subDeps == parseRequiresDist(requiresDist)
              entered == AddTransitive(py_allDeps, subDeps)
          IN  /\ py_allDeps' = entered
              /\ py_lookups' = [py_lookups EXCEPT ![Len(py_lookups)] =
                     [@ EXCEPT !.outcome = "answered",
                               !.requiresDist = requiresDist,
                               !.added = NewKeys(py_allDeps, entered)]]
    /\ gd_pc' = "delay"
    /\ UNCHANGED <<py_directDeps, py_depIndex>>
    /\ UNCHANGED <<gd_root, gd_path, gd_dependencyFiles, gd_fileIndex,
                   gd_allDependencies, gd_outcome, gd_emitted, gd_warnings>>
    /\ UNCHANGED <<normVars, srcVars, lockVars, parserVars, yarnVars>>

\* a variant in which a failed request ends the parse of the file
LookupFails_Aborts ==
    /\ gd_pc = "fetching"
    /\ py_lookups' = [py_lookups EXCEPT ![Len(py_lookups)].outcome = "failed"]
    /\ gd_warnings' = Append(gd_warnings,
                             [file |-> gd_fileIndex, about |-> "Could not parse"])
    /\ gd_fileIndex' = gd_fileIndex + 1
    /\ gd_pc' = "files"
    /\ py_directDeps' = <<>>
    /\ py_allDeps' = <<>>
    /\ py_depIndex' = 0
    /\ UNCHANGED <<gd_root, gd_path, gd_dependencyFiles,
                   gd_allDependencies, gd_outcome, gd_emitted>>
    /\ UNCHANGED <<normVars, srcVars, lockVars, parserVars, yarnVars>>

\* a variant in which a failed request is waited for without end
LookupFails_Hangs ==
    /\ gd_pc = "fetching"
    /\ py_lookups' = [py_lookups EXCEPT ![Len(py_lookups)].outcome = "failed"]
    /\ gd_pc' = "hung"
    /\ UNCHANGED <<py_directDeps, py_allDeps, py_depIndex>>
    /\ UNCHANGED <<gd_root, gd_path, gd_dependencyFiles, gd_fileIndex,
                   gd_allDependencies, gd_outcome, gd_emitted, gd_warnings>>
    /\ UNCHANGED <<normVars, srcVars, lockVars, parserVars, yarnVars>>

\* the request fails (network error, HTTP status, malformed JSON): a warning,
\* and the loop goes on without the timer
LookupFails ==
    /\ AwaitingLookup
    /\ py_lookups' = [py_lookups EXCEPT ![Len(py_lookups)].outcome = "failed"]
    /\ gd_warnings' = Append(gd_warnings,
                             [file |-> gd_fileIndex, about |-> "Failed to fetch dependencies"])
    /\ py_depIndex' = py_depIndex + 1
    /\ gd_pc' = "lookup"
    /\ UNCHANGED <<py_directDeps, py_allDeps>>
    /\ UNCHANGED <<gd_root, gd_path, gd_dependencyFiles, gd_fileIndex,
                   gd_allDependencies, gd_outcome, gd_emitted>>
    /\ UNCHANGED <<normVars, srcVars, lockVars, parserVars, yarnVars>>

\* the timer fires
DelayElapses ==
    /\ AwaitingTimer
    /\ py_lookups' = [py_lookups EXCEPT ![Len(py_lookups)].delayed = TRUE]
    /\ py_depIndex' = py_depIndex + 1
    /\ gd_pc' = "lookup"
    /\ UNCHANGED <<py_directDeps, py_allDeps>>
    /\ UNCHANGED <<gd_root, gd_path, gd_dependencyFiles, gd_fileIndex,
                   gd_allDependencies, gd_outcome, gd_emitted, gd_warnings>>
    /\ UNCHANGED <<normVars, srcVars, lockVars, parserVars, yarnVars>>

\* the second loop is over: the map is listed and sorted, tagged by
\* parseDependencyFile and merged by getDependencies
FinishRequirementsTxt ==
    /\ AfterDependencies
    /\ LET deps == TagAll(EntriesToList(py_allDeps), "pypi")
       IN  /\ gd_allDependencies' = Deduplicate(gd_allDependencies, deps)
           /\ gd_emitted' = gd_emitted \o Emitted(deps)
    /\ gd_fileIndex' = gd_fileIndex + 1
    /\ gd_pc' = "files"
    /\ py_directDeps' = <<>>
    /\ py_allDeps' = <<>>
    /\ py_depIndex' = 0
    /\ UNCHANGED <<gd_root, gd_path, gd_dependencyFiles, gd_outcome, gd_warnings, py_lookups>>
    /\ UNCHANGED <<normVars, srcVars, lockVars, parserVars, yarnVars>>

\* the loop over the files is over: the sorted values are returned
ReturnDependencies ==
    /\ AfterFiles
    /\ gd_outcome' = Returned(SortedValues(gd_allDependencies))
    /\ gd_pc' = "done"
    /\ UNCHANGED <<gd_root, gd_path, gd_dependencyFiles, gd_fileIndex,
                   gd_allDependencies, gd_emitted, gd_warnings>>
    /\ UNCHANGED <<normVars, srcVars, lockVars, parserVars, yarnVars, pyVars>>

Next ==
    \/ GetDependencies
    \/ ParseNpmFile
    \/ ParseRequirementsTxt
    \/ SkipDependency
    \/ FetchPyPIDependencies
    \/ LookupReturns
    \/ LookupFails
    \/ DelayElapses
    \/ FinishRequirementsTxt
    \/ ReturnDependencies

Spec == Init /\ [][Next]_vars

---------------------------------------------------------------------------
(* The normalization policy, stated on positions of the specifier *)

\* positions of the commas, with the two ends of the string as sentinels
ClauseBounds(v) == {0, Len(v) + 1} \cup {i \in 1..Len(v) : v[i] = ","}

\* the clause that starts after boundary b, blanks at both ends removed
ClauseAfter(v, b) ==
    LET e == CHOOSE x \in ClauseBounds(v) :
                 x > b /\ \A y \in ClauseBounds(v) : y > b => x <= y
        inside == {i \in (b + 1)..(e - 1) : v[i] \notin Space}
    IN  IF inside = {} THEN <<>>
        ELSE LET lo == CHOOSE i \in inside : \A j \in inside : i <= j
                 hi == CHOOSE i \in inside : \A j \in inside : i >= j
             IN  [k \in 1..(hi - lo + 1) |-> v[lo + k - 1]]

\* the clauses in order of appearance
ClauseStarts(v) == ClauseBounds(v) \ {Len(v) + 1}

\* the numeric value written after an operator of width w: the longest run
\* of digits and dots after the operator and any blanks; <<>> when there is
\* none
NumericValueAfter(c, w) ==
    LET first == CHOOSE i \in (w + 1)..(Len(c) + 1) :
                     /\ i = Len(c) + 1 \/ c[i] \notin Space
                     /\ \A j \in (w + 1)..(i - 1) : c[j] \in Space
        ends == {e \in first..Len(c) : \A j \in first..e : c[j] \in DigitOrDot}
    IN  [k \in 1..Cardinality(ends) |-> c[first + k - 1]]

\* the value of a lower-bound clause (>= or >), <<>> if c is none
LowerBoundValue(c) ==
    IF StartsWith(c, <<">", "=">>) THEN NumericValueAfter(c, 2)
    ELSE IF StartsWith(c, <<">">>) THEN NumericValueAfter(c, 1)
    ELSE <<>>

\* the value of an == clause, <<>> if c is none
ExactValue(c) ==
    IF StartsWith(c, <<"=", "=">>) THEN NumericValueAfter(c, 2) ELSE <<>>

\* c[i..j] is a numeric-dotted string: digits, a dot, then digits or dots
IsDotted(c, i, j) ==
    \E d \in i..(j - 2) :
        /\ \A k \in i..d : c[k] \in Digit
        /\ c[d + 1] = "."
        /\ \A k \in (d + 2)..j : c[k] \in DigitOrDot

\* the first (leftmost, then longest) numeric-dotted substring, <<>> if none
DottedValue(c) ==
    LET spans == {ij \in (1..Len(c)) \X (1..Len(c)) : IsDotted(c, ij[1], ij[2])}
    IN  IF spans = {} THEN <<>>
        ELSE LET best == CHOOSE ij \in spans : \A o \in spans :
                             ij[1] < o[1] \/ (ij[1] = o[1] /\ ij[2] >= o[2])
             IN  [k \in 1..(best[2] - best[1] + 1) |-> c[best[1] + k - 1]]

\* the value of the first clause for which Values gives one, <<>> if none;
\* values is a function from clause starts to values
FirstValue(values) ==
    LET having == {b \in DOMAIN values : values[b] # <<>>}
    IN  IF having = {} THEN <<>>
        ELSE values[CHOOSE b \in having : \A o \in having : b <= o]

\* every segment that is exactly * replaced by 0, then .0 appended until
\* there are three components
WildcardPolicy(v) ==
    LET whole(i) == /\ v[i] = "*"
                    /\ (i = 1 \/ v[i - 1] = ".")
                    /\ (i = Len(v) \/ v[i + 1] = ".")
        replaced == [i \in 1..Len(v) |-> IF whole(i) THEN "0" ELSE v[i]]
        components == Cardinality({i \in 1..Len(v) : v[i] = "."}) + 1
    IN  IF components >= 3 THEN replaced
        ELSE IF components = 2 THEN replaced \o <<".", "0">>
        ELSE replaced \o <<".", "0", ".", "0">>

NormalizePolicy(v) ==
    IF \A i \in 1..Len(v) : v[i] \notin {"<", ">", "=", "!", "~", ",", "*"} THEN v
    ELSE IF \E i \in 1..Len(v) : v[i] = "*" THEN WildcardPolicy(v)
    ELSE LET lower == FirstValue([b \in ClauseStarts(v) |-> LowerBoundValue(ClauseAfter(v, b))])
             exact == FirstValue([b \in ClauseStarts(v) |-> ExactValue(ClauseAfter(v, b))])
             dotted == FirstValue([b \in ClauseStarts(v) |-> DottedValue(ClauseAfter(v, b))])
         IN  IF lower # <<>> THEN lower
             ELSE IF exact # <<>> THEN exact
             ELSE IF dotted # <<>> THEN dotted
             ELSE Null

\* C7: normalizeVersion returns, for every specifier, the result of the
\* policy: unchanged without a constraint character; else with a * every *
\* segment becomes 0 and the string is padded with .0 to three components;
\* else the value of the first >= or > clause, else of the first == clause,
\* else the first numeric-dotted substring of any clause, else failure.  In
\* particular "2.*" gives "2.0.0", ">=1.7.4,!=1.8.1,<3.0.0" gives "1.7.4" and
\* "==1.2.3" gives "1.2.3".
C7_NormalizePolicy ==
    nv_pc = "returned" =>
        /\ nv_result = NormalizePolicy(nv_input)
        /\ nv_input = <<"2",".","*">> => nv_result = <<"2",".","0",".","0">>
        /\ nv_input = <<">","=","1",".","7",".","4",",","!","=","1",".","8",".","1",",","<","3",".","0",".","0">>
               => nv_result = <<"1",".","7",".","4">>
        /\ nv_input = <<"=","=","1",".","2",".","3">> => nv_result = <<"1",".","2",".","3">>

\* a compound specifier whose == clause precedes its lower bound has been
\* normalized to the lower bound
C7_Witness ==
    /\ nv_pc = "returned"
    /\ nv_input = <<"=","=","1",".","2",",",">","=","2",".","0">>
    /\ nv_result = <<"2",".","0">>

---------------------------------------------------------------------------
(* Source classification as a precedence list *)

\* the label of the registry origin in PackageSource
Registry == "npm"

\* the rules in precedence order: the label and whether the string matches
SourceRules(r) == <<
    [label |-> "git",       matches |-> StartsWith(r, S_gitPlus)],
    [label |-> "github",    matches |-> StartsWith(r, S_githubColon) \/ Includes(r, S_githubCom)],
    [label |-> "gitlab",    matches |-> StartsWith(r, S_gitlabColon) \/ Includes(r, S_gitlabCom)],
    [label |-> "bitbucket", matches |-> StartsWith(r, S_bitbucketColon) \/ Includes(r, S_bitbucketOrg)],
    [label |-> "svn",       matches |-> StartsWith(r, S_svnPlus)],
    [label |-> "http",      matches |-> StartsWith(r, S_http)],
    [label |-> Registry,    matches |-> StartsWith(r, S_npmRegistry) \/ StartsWith(r, S_yarnRegistry)],
    [label |-> "https",     matches |-> StartsWith(r, S_https)],
    [label |-> "file",      matches |-> StartsWith(r, S_file)],
    [label |-> "link",      matches |-> StartsWith(r, S_link)] >>

FirstRule(r) ==
    LET matching == {i \in 1..Len(SourceRules(r)) : SourceRules(r)[i].matches}
    IN  IF r = Undefined \/ matching = {} THEN "unknown"
        ELSE SourceRules(r)[CHOOSE i \in matching : \A j \in matching : i <= j].label

\* C5: the source type of a resolved-origin string is the first match in the
\* order git+, github, gitlab, bitbucket, svn+, http://, registry host over
\* https://, other https://, file:, link:, otherwise unknown; a git+ string
\* containing github.com is git, a registry URL is registry, an absent string
\* is unknown.
C5_SourcePrecedence ==
    st_pc = "returned" =>
        /\ st_source = FirstRule(st_resolved)
        /\ st_resolved = R_gitSsh => st_source = "git"
        /\ st_resolved = R_npmTarball => st_source = Registry
        /\ st_resolved = Undefined => st_source = "unknown"

\* a git+ origin that also names github.com has been classified
C5_Witness ==
    /\ st_pc = "returned"
    /\ st_resolved = R_gitSsh
    /\ st_source = "git"

---------------------------------------------------------------------------
(* Properties of parsePackageLock *)

\* the (name, version) pairs of a list of records
Pairs(list) == {<<list[i].name, list[i].version>> : i \in 1..Len(list)}

\* the packages of a graph in document order (a package before the packages
\* installed under it)
RECURSIVE Preorder(_)
Preorder(forest) ==
    IF forest = <<>> THEN <<>>
    ELSE <<forest[1]>> \o Preorder(forest[1].installs) \o Preorder(Tail(forest))

\* C4: the nested-schema and the flat-schema lockfile of one dependency
\* graph yield the same set of (name, version) pairs, scoped packages and
\* nested installs included.
C4_SchemaEquivalence ==
    (lk_nested.done /\ lk_flat.done) => Pairs(lk_nested.list) = Pairs(lk_flat.list)

\* the strong-algorithm test of the claim: present and beginning with sha512-
BeginsWithSha512(integrity) ==
    /\ integrity # Undefined
    /\ Len(integrity) >= 7
    /\ SubSeq(integrity, 1, 7) = <<"s","h","a","5","1","2","-">>

\* the lockfile entry a record was produced from: the first package of the
\* graph, in document order, with the record's name and version
ProducingEntry(graph, record) ==
    LET order == Preorder(graph)
        same == {i \in 1..Len(order) :
                    order[i].name = record.name /\ order[i].version = record.version}
    IN  order[CHOOSE i \in same : \A j \in same : i <= j]

IntegrityFlagsRight(list) ==
    \A i \in 1..Len(list) :
        list[i].sha512 = BeginsWithSha512(ProducingEntry(lk_graph, list[i]).integrity)

\* C6: for every record produced from a package-lock.json entry, the
\* integrity flag is true iff the entry's integrity field is present and
\* begins with sha512-; absent, empty or another algorithm gives false.
C6_IntegrityFlag ==
    /\ lk_nested.done => IntegrityFlagsRight(lk_nested.list)
    /\ lk_flat.done => IntegrityFlagsRight(lk_flat.list)

\* both lockfiles of a graph have been parsed, with a sha512 entry flagged
\* and an entry with another algorithm not flagged
C6_Witness ==
    /\ lk_nested.done /\ lk_flat.done
    /\ \E i, j \in 1..Len(lk_flat.list) :
          /\ lk_flat.list[i].sha512
          /\ ~lk_flat.list[j].sha512
          /\ ProducingEntry(lk_graph, lk_flat.list[j]).integrity = I_sha1
    /\ \E i \in 1..Len(lk_nested.list) : lk_nested.list[i].sha512

---------------------------------------------------------------------------
(* Properties of getDependencies *)

SameKey(a, b) == a.name = b.name /\ a.version = b.version

\* C1: for every path and every content of the discovered files, the list
\* getDependencies returns has no two records with the same (name, version)
\* pair.
C1_UniqueKeys ==
    gd_outcome.kind = "returned" =>
        \A i, j \in 1..Len(gd_outcome.list) :
            i # j => ~SameKey(gd_outcome.list[i], gd_outcome.list[j])

\* a list of several records has been returned after two files handed the
\* same pair to the merge
C1_Witness ==
    /\ gd_outcome.kind = "returned"
    /\ Len(gd_outcome.list) >= 2
    /\ \E i, j \in 1..Len(gd_emitted) :
          /\ gd_emitted[i].file # gd_emitted[j].file
          /\ SameKey(gd_emitted[i].dep, gd_emitted[j].dep)

\* the first record with the key of record that reached the merge
FirstEmitted(record) ==
    LET same == {i \in 1..Len(gd_emitted) : SameKey(gd_emitted[i].dep, record)}
    IN  gd_emitted[CHOOSE i \in same : \A j \in same : i <= j].dep

\* the entries of a nested-schema lockfile in document order
RECURSIVE Occurrences(_)
Occurrences(entries) ==
    IF entries = <<>> THEN <<>>
    ELSE <<[name |-> entries[1].name,
            version |-> entries[1].data.version,
            resolved |-> entries[1].data.resolved,
            integrity |-> entries[1].data.integrity]>>
         \o Occurrences(entries[1].data.dependencies)
         \o Occurrences(Tail(entries))

FirstOccurrence(entries, record) ==
    LET order == Occurrences(entries)
        same == {i \in 1..Len(order) : SameKey(order[i], record)}
    IN  order[CHOOSE i \in same : \A j \in same : i <= j]

\* what one nested-schema package-lock.json handed to the merge is, key by
\* key, made from the first entry of the file with that key
KeptWithinFile ==
    \A k \in 1..Len(gd_emitted) :
        LET file == gd_dependencyFiles[gd_emitted[k].file]
            record == gd_emitted[k].dep
        IN  (Basename(file) = F_packageLock /\ ReadFile(gd_root, file).lockfileVersion = 1) =>
                LET first == FirstOccurrence(ReadFile(gd_root, file).dependencies, record)
                IN  /\ record.ecosystem = "npm"
                    /\ record.resolved = first.resolved
                    /\ record.source = FirstRule(first.resolved)
                    /\ record.sha512 = BeginsWithSha512(first.integrity)

\* C2: when a (name, version) key is emitted more than once, within one
\* file or by several files in discovery order, the record kept is the
\* first one inserted and later insertions change nothing: ecosystem,
\* source type, integrity flag and resolved URL stay those of the first
\* occurrence.
C2_FirstSeenWins ==
    /\ KeptWithinFile
    /\ \A i \in 1..Len(gd_allDependencies) :
          gd_allDependencies[i].value = FirstEmitted(gd_allDependencies[i].value)
    /\ gd_outcome.kind = "returned" =>
          \A i \in 1..Len(gd_outcome.list) :
              gd_outcome.list[i] = FirstEmitted(gd_outcome.list[i])

\* a@1 occurs twice, with different origins, in the package-lock.json and
\* then once more in a requirements.txt; the list has been returned
C2_Witness ==
    /\ gd_outcome.kind = "returned"
    /\ \E f \in 1..Len(gd_dependencyFiles) :
          /\ Basename(gd_dependencyFiles[f]) = F_packageLock
          /\ ReadFile(gd_root, gd_dependencyFiles[f]) = NestedLockfile(G_shadowed)
    /\ \E i, j \in 1..Len(gd_emitted) :
          /\ i < j
          /\ SameKey(gd_emitted[i].dep, gd_emitted[j].dep)
          /\ gd_emitted[i].dep.ecosystem = "npm"
          /\ gd_emitted[i].dep.source = "git"
          /\ gd_emitted[j].dep.ecosystem = "pypi"
          /\ \E k \in 1..Len(gd_outcome.list) : gd_outcome.list[k] = gd_emitted[i].dep

\* the collation order of two strings
SortsBefore(x, y) == localeCompare(x, y) < 0

\* C3: the returned list is ordered by name and, among records of one name,
\* by version: of two consecutive records either the first name sorts before
\* the second, or the names are equal and the first version does not sort
\* after the second.
C3_SortedOutput ==
    gd_outcome.kind = "returned" =>
        \A i \in 1..(Len(gd_outcome.list) - 1) :
            LET a == gd_outcome.list[i]
                b == gd_outcome.list[i + 1]
            IN  \/ SortsBefore(a.name, b.name)
                \/ a.name = b.name /\ ~SortsBefore(b.version, a.version)

\* the returned list differs from the order in which the records were merged
C3_Witness ==
    /\ gd_outcome.kind = "returned"
    /\ Len(gd_outcome.list) >= 2
    /\ gd_outcome.list # MapValues(gd_allDependencies)

---------------------------------------------------------------------------
(* Properties of parseRequirementsTxt *)

V_flask    == [name |-> <<"f","l","a","s","k">>, version |-> <<"2",".","0",".","1">>]
V_requests == [name |-> <<"r","e","q","u","e","s","t","s">>, version |-> <<"2",".","2","5",".","0">>]
V_werkzeug == [name |-> <<"W","e","r","k","z","e","u","g">>, version |-> <<"2",".","0">>]

NameVersions(list) ==
    [i \in 1..Len(list) |-> [name |-> list[i].name, version |-> list[i].version]]

\* the directory of the example: only a requirements.txt, of the two lines
ExampleRoots ==
    {Dir(<<>>, TRUE, <<File(F_requirements, TextFile(lines))>>) :
        lines \in {<<L_flask, L_requests>>, <<L_requests, L_flask>>}}

\* the registry of the example: flask 2.0.1 requires Werkzeug>=2.0, requests
\* 2.25.0 requires nothing
ExampleRegistry ==
    \A k \in 1..Len(py_lookups) :
        LET l == py_lookups[k]
        IN  /\ SameKey([name |-> l.packageName, version |-> l.version], V_flask) =>
                  l.outcome = "answered" /\ l.requiresDist = <<Q_werkzeug>>
            /\ SameKey([name |-> l.packageName, version |-> l.version], V_requests) =>
                  l.outcome = "answered" /\ l.requiresDist = <<>>

\* C8: scanning a directory that holds only a requirements.txt with the
\* lines flask==2.0.1 and requests>=2.25.0, the registry reporting that flask
\* 2.0.1 requires Werkzeug>=2.0 and requests 2.25.0 nothing, returns exactly
\* flask@2.0.1, requests@2.25.0 and Werkzeug@2.0, in name order.
C8_EndToEnd ==
    (/\ gd_root \in ExampleRoots
     /\ gd_path = <<>>
     /\ gd_outcome.kind = "returned"
     /\ ExampleRegistry) =>
        NameVersions(gd_outcome.list) = <<V_flask, V_requests, V_werkzeug>>

\* the example has run to its end, both lookups answered
C8_Witness ==
    /\ gd_root \in ExampleRoots
    /\ gd_path = <<>>
    /\ gd_outcome.kind = "returned"
    /\ ExampleRegistry
    /\ Len(py_lookups) = 2

\* the dependencies the lines of the manifest of a file declare
DeclaredIn(fileIndex) ==
    DirectLines(ReadFile(gd_root, gd_dependencyFiles[fileIndex]).lines)

EnteredByLookup(fileIndex) ==
    UNION {{py_lookups[k].added[i] : i \in 1..Len(py_lookups[k].added)} :
              k \in {j \in 1..Len(py_lookups) : py_lookups[j].file = fileIndex}}

\* C10: a direct dependency takes precedence over a transitive one of the
\* same name: for every name declared on a line of the manifest, the output
\* never reports for that name a version that came from a lookup result.
C10_DirectPrecedence ==
    \A k \in 1..Len(gd_emitted) :
        LET record == gd_emitted[k].dep
            declared == DeclaredIn(gd_emitted[k].file)
        IN  (/\ record.ecosystem = "pypi"
             /\ \E i \in 1..Len(declared) : declared[i].name = record.name) =>
                record.name \notin EnteredByLookup(gd_emitted[k].file)

\* the lookups of a file, in the order they were made
LookupsOf(fileIndex) ==
    {k \in 1..Len(py_lookups) : py_lookups[k].file = fileIndex}

\* the records a file handed to the merge
EmittedBy(fileIndex) ==
    {gd_emitted[i].dep : i \in {j \in 1..Len(gd_emitted) : gd_emitted[j].file = fileIndex}}

\* the loop over the files has gone past the file
Finished(fileIndex) == gd_fileIndex > fileIndex

InFlight == {k \in 1..Len(py_lookups) : py_lookups[k].outcome = "pending"}

\* C12: registry lookups are strictly sequential over a whole getDependencies
\* run: at most one lookup is in flight, and when a lookup has started every
\* earlier lookup, of the same requirements.txt or of an earlier one, has
\* returned or failed.
C12_OneLookupInFlight ==
    /\ Cardinality(InFlight) <= 1
    /\ \A k \in InFlight : k = Len(py_lookups)
    /\ gd_pc = "fetching" <=> InFlight # {}

\* a lookup of a second requirements.txt is in flight after the lookups of
\* the first have ended
C12_Witness ==
    /\ InFlight # {}
    /\ \E k \in 1..(Len(py_lookups) - 1) :
          /\ py_lookups[k].file < py_lookups[Len(py_lookups)].file
          /\ py_lookups[k].outcome \in {"answered", "failed"}

\* C13: between two consecutive lookups of one parseRequirementsTxt call the
\* delay is inserted: when the later lookup has started, the timer set after
\* the earlier one has fired, whether the earlier lookup returned or failed.
C13_DelayBetweenLookups ==
    \A k \in 1..(Len(py_lookups) - 1) :
        py_lookups[k].file = py_lookups[k + 1].file => py_lookups[k].delayed

\* the names the walk passed through on its way from the scanned path to a
\* discovered file
PassedThrough(file) == {file[i] : i \in (Len(gd_path) + 1)..(Len(file) - 1)}

\* C14: the traversal never descends into a directory named node_modules or
\* whose name begins with a dot: no discovered file, hence no parsed file,
\* lies below such a directory met under the scanned path, at any depth,
\* whatever the name of the file.
C14_PrunedDirectories ==
    \A f \in 1..Len(gd_dependencyFiles) :
        \A name \in PassedThrough(gd_dependencyFiles[f]) :
            name # D_nodeModules /\ name[1] # "."

\* the scanned directory holds sub/package.json next to
\* sub/node_modules/package-lock.json, or a file of a recognised name in a
\* pruned directory of its own; the scan has returned
C14_Witness ==
    /\ gd_outcome.kind = "returned"
    /\ gd_path = <<>>
    /\ \E i \in 1..Len(gd_root.entries) :
          LET entry == gd_root.entries[i]
          IN  /\ entry.kind = "dir" /\ entry.readable
              /\ \/ /\ entry.name = D_sub
                    /\ \E j \in 1..Len(entry.entries) :
                          /\ entry.entries[j].name = D_nodeModules
                          /\ entry.entries[j].entries[1].name \in targetFiles
                    /\ <<D_sub, F_packageJson>> \in
                           {gd_dependencyFiles[f] : f \in 1..Len(gd_dependencyFiles)}
                 \/ /\ entry.name \in {D_nodeModules, D_hidden}
                    /\ entry.entries[1].name \in targetFiles
                    /\ gd_dependencyFiles # <<>>

\* what the scanned path names in the project directory: the directory itself
\* or one of its entries, if any
Named ==
    IF gd_path = <<>> THEN {gd_root}
    ELSE {gd_root.entries[i] : i \in {j \in 1..Len(gd_root.entries) :
                                          gd_root.entries[j].name = gd_path[1]}}

RecognisedNames ==
    {<<"p","a","c","k","a","g","e",".","j","s","o","n">>,
     <<"p","a","c","k","a","g","e","-","l","o","c","k",".","j","s","o","n">>,
     <<"y","a","r","n",".","l","o","c","k">>,
     <<"r","e","q","u","i","r","e","m","e","n","t","s",".","t","x","t">>}

\* the path does not exist (nothing of that name, or a link that leads
\* nowhere), is a regular file of another name, or is neither a file nor a
\* directory
MustFail ==
    \/ Named = {}
    \/ \E object \in Named :
          \/ object.kind = "symlink" /\ "target" \notin DOMAIN object
          \/ object.kind = "file" /\ object.name \notin RecognisedNames
          \/ object.kind = "other"

\* C15: getDependencies ends in an error if and only if the path does not
\* exist, or is a regular file whose base name is not one of the four
\* recognised names, or is neither a file nor a directory; in every other
\* case, a directory without matching files and files that cannot be parsed
\* included, it ends by returning a list.
C15_ErrorsOnlyOnPath ==
    /\ gd_outcome.kind = "threw" => MustFail
    /\ gd_outcome.kind = "returned" => ~MustFail
    /\ gd_pc = "done" => gd_outcome.kind \in {"threw", "returned"}
    /\ (gd_pc # "start" /\ MustFail) => gd_outcome.kind = "threw"

\* a file of a recognised name that cannot be parsed was scanned by its own
\* path: a warning and the empty list, no error
C15_Witness ==
    /\ gd_outcome = Returned(<<>>)
    /\ gd_path # <<>>
    /\ gd_dependencyFiles = <<gd_path>>
    /\ \E w \in 1..Len(gd_warnings) : gd_warnings[w].about = "Could not parse"

\* the discovered file is read and parsed without an exception
Parses(fileIndex) ==
    LET file == gd_dependencyFiles[fileIndex]
    IN  IF Basename(file) = F_requirements
        THEN ReadFile(gd_root, file).readable
        ELSE ~parseDependencyFile(gd_root, file).threw

\* the (name, version) pairs a discovered file that parses emits
Contribution(fileIndex) ==
    LET file == gd_dependencyFiles[fileIndex]
    IN  IF Basename(file) = F_requirements
        THEN {<<record.name, record.version>> : record \in EmittedBy(fileIndex)}
        ELSE Pairs(parseDependencyFile(gd_root, file).list)

\* C16: a local failure does not abort a directory scan: the scan returns;
\* a directory that cannot be opened hides only what is below it; every
\* dependency of each discovered file that parses is in the output; a file
\* whose parse fails contributes no record, so each record of the output
\* comes from a file that parses.
C16_LocalFailures ==
    (gd_pc = "done" /\ \E object \in Named : object.kind = "dir") =>
        LET files == 1..Len(gd_dependencyFiles)
            output == IF gd_outcome.kind = "returned" THEN Pairs(gd_outcome.list) ELSE {}
        IN  /\ gd_outcome.kind = "returned"
            /\ (gd_path = <<>> /\ gd_root.readable) =>
                   \A i \in 1..Len(gd_root.entries) :
                       (gd_root.entries[i].kind = "file"
                            /\ gd_root.entries[i].name \in RecognisedNames) =>
                           \E f \in files : gd_dependencyFiles[f] = <<gd_root.entries[i].name>>
            /\ \A f \in files :
                   IF Parses(f)
                   THEN Contribution(f) \subseteq output
                   ELSE EmittedBy(f) = {}
            /\ output \subseteq UNION {Contribution(f) : f \in {g \in files : Parses(g)}}

\* in one directory scan a file failed to parse, or a directory could not
\* be opened, and another file's dependencies were returned
C16_Witness ==
    /\ gd_outcome.kind = "returned"
    /\ gd_outcome.list # <<>>
    /\ gd_path = <<>>
    /\ \/ \E w \in 1..Len(gd_warnings) : gd_warnings[w].about = "Could not parse"
       \/ \E i \in 1..Len(gd_root.entries) :
             gd_root.entries[i].kind = "dir" /\ ~gd_root.entries[i].readable

---------------------------------------------------------------------------
(* Properties of the NpmParser operations *)

\* the list is in order of name, then of version
InOrder(list) ==
    \A i \in 1..(Len(list) - 1) :
        \/ SortsBefore(list[i].name, list[i + 1].name)
        \/ list[i].name = list[i + 1].name
               /\ ~SortsBefore(list[i + 1].version, list[i].version)

\* C17: two parses of one package-lock.json or yarn.lock, by the same
\* NpmParser or by a new one, end alike and return the same records in the
\* same order, and the list is sorted.
C17_ParseTwice ==
    \A i, j \in 1..Len(np_results) :
        /\ np_results[i] = np_results[j]
        /\ InOrder(np_results[i].list)

\* a lockfile with several records has been parsed twice
C17_Witness ==
    /\ Len(np_results) = 2
    /\ Len(np_results[2].list) >= 2

\* no descriptor of the nested-schema entries is null, at any depth
RECURSIVE NoNullDescriptor(_)
NoNullDescriptor(entries) ==
    \A i \in 1..Len(entries) :
        /\ ~entries[i].data.null
        /\ NoNullDescriptor(entries[i].data.dependencies)

\* the lockfile is there and can be read to its end
CanBeRead(lock) ==
    /\ lock.readable
    /\ IF lock.lockfileVersion >= 2
       THEN \A i \in 1..Len(lock.packages) :
                lock.packages[i].path = <<>> \/ ~lock.packages[i].pkg.null
       ELSE NoNullDescriptor(lock.dependencies)

\* the four sections of a package.json in the order they are merged
Sections(content) ==
    <<content.dependencies, content.devDependencies,
      content.peerDependencies, content.optionalDependencies>>

\* the declarations of a package.json: per name the range of the last
\* section, and in it of the last entry, that declares the name
DeclaredRanges(content) ==
    LET at == {<<k, i>> \in (1..4) \X (1..2) : i <= Len(Sections(content)[k])}
        later(x, y) == x[1] > y[1] \/ (x[1] = y[1] /\ x[2] >= y[2])
        entry(x) == Sections(content)[x[1]][x[2]]
    IN  {<<entry(x).name, entry(x).version>> : x \in
            {y \in at : \A z \in at : entry(z).name = entry(y).name => later(y, z)}}

Markers(path) ==
    {i \in 1..Len(path) :
        /\ i + Len(S_nodeModules) - 1 <= Len(path)
        /\ SubSeq(path, i, i + Len(S_nodeModules) - 1) = S_nodeModules}

\* what follows the last node_modules/ marker of path
AfterLastMarker(path) ==
    LET last == CHOOSE i \in Markers(path) : \A j \in Markers(path) : j <= i
    IN  SubSeq(path, last + Len(S_nodeModules), Len(path))

\* the name the claim gives an entry of the flat schema
EntryName(entry) ==
    IF Truthy(entry.pkg.name) THEN entry.pkg.name ELSE AfterLastMarker(entry.path)

\* C19: in the flat schema the root entry and the entries without a version
\* are skipped, and every other entry yields a dependency named by the
\* descriptor's name field if present, otherwise by what follows the last
\* node_modules/ marker of its path (a/node_modules/b gives b,
\* node_modules/@scope/name gives @scope/name); nothing else is yielded.
C19_FlatSchemaNames ==
    lk_flat.done =>
        LET packages == FlatLockfile(lk_graph).packages
            yielding == {i \in 1..Len(packages) :
                            /\ packages[i].path # <<>>
                            /\ Truthy(packages[i].pkg.version)}
        IN  /\ ~lk_flat.threw
            /\ Pairs(lk_flat.list) =
                   {<<EntryName(packages[i]), packages[i].pkg.version>> : i \in yielding}

\* C20: in the nested schema the walk reaches every node at any depth: the
\* list holds exactly the (name, version) of the nodes that have a version,
\* below nodes without a version as well; a node is emitted before the nodes
\* nested in it, so that of several nodes with one key the first in document
\* order, the enclosing node before the nested one, gives the record its
\* resolved URL, source type and integrity flag.
C20_NestedWalk ==
    lk_nested.done =>
        LET order == Preorder(lk_graph)
            versioned == {i \in 1..Len(order) : Truthy(order[i].version)}
        IN  /\ ~lk_nested.threw
            /\ Pairs(lk_nested.list) = {<<order[i].name, order[i].version>> : i \in versioned}
            /\ \A k \in 1..Len(lk_nested.list) :
                   LET record == lk_nested.list[k]
                       first == ProducingEntry(lk_graph, record)
                   IN  /\ record.resolved = first.resolved
                       /\ record.source = FirstRule(first.resolved)
                       /\ record.sha512 = BeginsWithSha512(first.integrity)

\* the three-level lockfile has been parsed: the package below the node
\* without a version is in the list, and a@1 is the enclosing one
C20_Witness ==
    /\ lk_nested.done
    /\ lk_graph = G_deep
    /\ Pairs(lk_nested.list) = {<<N_a, <<"1">>>>, <<N_scoped, <<"2">>>>}
    /\ \E k \in 1..Len(lk_nested.list) :
          lk_nested.list[k].name = N_a /\ lk_nested.list[k].source = "npm"

---------------------------------------------------------------------------
(* Further properties of normalizeVersion *)

OperatorCharacters == {"<", ">", "=", "!", "~", ",", "*"}

\* C23: normalizeVersion either returns the failure value or an exact
\* version: a successful result holds none of the characters < > = ! ~ , *.
C23_ExactResult ==
    nv_pc = "returned" =>
        \/ nv_result = Null
        \/ \A i \in 1..Len(nv_result) : nv_result[i] \notin OperatorCharacters

---------------------------------------------------------------------------
(* Further properties of parseRequirementsTxt *)

\* the lines of the manifest of a file that name a package and go on with
\* an operator: [name, specifier], the specifier being the whole text that
\* follows the name, its leading operator included
SpecifierLines(fileIndex) ==
    LET lines == ReadFile(gd_root, gd_dependencyFiles[fileIndex]).lines
        nameEnd(l) == RunEnd(l, 1, NameChar)
        with == {i \in 1..Len(lines) :
                    /\ nameEnd(lines[i]) >= 1
                    /\ nameEnd(lines[i]) < Len(lines[i])
                    /\ lines[i][nameEnd(lines[i]) + 1] \in {"=", "<", ">", "!", "~"}}
    IN  {[name |-> SubSeq(lines[i], 1, nameEnd(lines[i])),
          specifier |-> SubSeq(lines[i], nameEnd(lines[i]) + 1, Len(lines[i]))] : i \in with}

\* C24: for every line of a requirements.txt with a specifier on which the
\* Version Constraint Normalizer succeeds, the file's output reports the
\* line's name with the Normalizer's result on the raw specifier, leading
\* operator included, or, if several lines declare the name, with its
\* result on the specifier of one of them; a line is left out only if the
\* Normalizer fails on its raw specifier.
C24_NormalizerOnRawSpecifier ==
    \A f \in 1..Len(gd_dependencyFiles) :
        (Finished(f) /\ Basename(gd_dependencyFiles[f]) = F_requirements
                     /\ ReadFile(gd_root, gd_dependencyFiles[f]).readable) =>
            \A line \in SpecifierLines(f) :
                NormalizePolicy(line.specifier) # Null =>
                    \E record \in EmittedBy(f) :
                        /\ record.name = line.name
                        /\ record.version \in
                               {NormalizePolicy(other.specifier) :
                                   other \in {o \in SpecifierLines(f) : o.name = line.name}}

\* the positions of the records a file handed to the merge
EmittedAt(fileIndex) == {i \in 1..Len(gd_emitted) : gd_emitted[i].file = fileIndex}

\* C26: the list parseRequirementsTxt returns holds at most one record per
\* package name, names compared exactly, also when the manifest declares a
\* name on several lines or a lookup returns a name several times.
C26_OneRecordPerName ==
    \A f \in 1..Len(gd_dependencyFiles) :
        Basename(gd_dependencyFiles[f]) = F_requirements =>
            \A i, j \in EmittedAt(f) :
                gd_emitted[i].dep.name = gd_emitted[j].dep.name => i = j

\* a manifest that declares one name with two exact versions has been
\* parsed, a lookup having returned one name twice
C26_Witness ==
    \E f \in 1..Len(gd_dependencyFiles) :
        /\ Finished(f)
        /\ Basename(gd_dependencyFiles[f]) = F_requirements
        /\ EmittedAt(f) # {}
        /\ \E x, y \in SpecifierLines(f) :
              /\ x.name = y.name
              /\ NormalizePolicy(x.specifier) # Null
              /\ NormalizePolicy(y.specifier) # Null
              /\ NormalizePolicy(x.specifier) # NormalizePolicy(y.specifier)
        /\ \E k \in LookupsOf(f) :
              LET returned == parseRequiresDist(py_lookups[k].requiresDist)
              IN  \E a, b \in 1..Len(returned) :
                      a # b /\ returned[a].name = returned[b].name

V_zero == <<"0", ".", "0", ".", "0">>

\* the names on the lines of the manifest of a file that hold a name and
\* nothing else
NameOnlyLines(fileIndex) ==
    LET lines == ReadFile(gd_root, gd_dependencyFiles[fileIndex]).lines
    IN  {lines[i] : i \in {j \in 1..Len(lines) :
                              /\ lines[j] # <<>>
                              /\ \A k \in 1..Len(lines[j]) : lines[j][k] \in NameChar}}

----------------------------------------------------------------------------
(* The yarn.lock scanner as a two-state machine: AWAITING_HEADER is         *)
(* currentPackage = null, IN_BLOCK is currentPackage = the captured name    *)

AwaitingHeader(currentPackage) == currentPackage = Null
InBlock(currentPackage) == currentPackage # Null

\* the quoted string of an indented line that reads: version "..."
QuotedVersion(line) ==
    LET trimmed == Trim(line)
        open == RunEnd(trimmed, 8, Space) + 1
        close == IndexFrom(trimmed, "\"", open + 1)
    IN  IF /\ line # <<>> /\ line[1] \in Space
           /\ StartsWith(trimmed, S_versionSpace)
           /\ open <= Len(trimmed) /\ trimmed[open] = "\""
           /\ close > open + 1
        THEN Slice(trimmed, open + 1, close - 1)
        ELSE Null

BlankOrComment(line) == Trim(line) = <<>> \/ Trim(line)[1] = "#"

\* the steps of the log that are emissions, and those that match a header
Emissions == {k \in 1..Len(ys_log) :
                 InBlock(ys_log[k].before) /\ QuotedVersion(ys_log[k].line) # Null}
MatchedHeaders == {k \in 1..Len(ys_log) :
                      /\ ~BlankOrComment(ys_log[k].line)
                      /\ ~(ys_log[k].line[1] \in Space)
                      /\ MatchHeader(ys_log[k].line) # Null}

\* the name captured by the last header matched before step k, if any
LastCaptured(k) ==
    LET earlier == {j \in 1..(k - 1) :
                       /\ ~BlankOrComment(ys_log[j].line)
                       /\ ~(ys_log[j].line[1] \in Space)
                       /\ MatchHeader(ys_log[j].line) # Null}
    IN  IF earlier = {} THEN Null
        ELSE MatchHeader(ys_log[CHOOSE j \in earlier : \A i \in earlier : i <= j].line)

\* C21: the map of the scanner changes only on an indented version line with
\* a quoted string met in IN_BLOCK; such a line adds (or finds) the record
\* of the last captured name and the quoted version and leaves the scanner
\* in AWAITING_HEADER; the same line met in AWAITING_HEADER changes nothing;
\* blank and comment lines change nothing; a matched header precedes every
\* emission and separates any two emissions.
C21_ScannerStates ==
    /\ \A k \in 1..Len(ys_log) :
          LET e == ys_log[k]
          IN  /\ e.has # e.had =>
                   /\ k \in Emissions
                   /\ e.has = Append(e.had, e.has[Len(e.has)])
                   /\ e.has[Len(e.has)].value.name = LastCaptured(k)
                   /\ e.has[Len(e.has)].value.version = QuotedVersion(e.line)
              /\ k \in Emissions =>
                   /\ e.before = LastCaptured(k)
                   /\ AwaitingHeader(e.after)
                   /\ \E i \in 1..Len(e.has) :
                         /\ e.has[i].value.name = e.before
                         /\ e.has[i].value.version = QuotedVersion(e.line)
              /\ (AwaitingHeader(e.before) /\ QuotedVersion(e.line) # Null) =>
                   e.has = e.had /\ AwaitingHeader(e.after)
              /\ BlankOrComment(e.line) => e.after = e.before /\ e.has = e.had
    /\ \A k \in Emissions :
          /\ \E j \in MatchedHeaders : j < k
          /\ \A i \in Emissions :
                i < k => \E j \in MatchedHeaders : i < j /\ j < k

\* a header, then a version line that emits, then a version line met in
\* AWAITING_HEADER
C21_Witness ==
    \E k \in 1..Len(ys_log) :
        /\ k \in Emissions
        /\ ys_log[k].has # ys_log[k].had
        /\ k < Len(ys_log)
        /\ AwaitingHeader(ys_log[k + 1].before)
        /\ QuotedVersion(ys_log[k + 1].line) # Null

----------------------------------------------------------------------------
(* Header lines of a yarn.lock *)

\* the line without its opening quote
Unquoted(line) == IF line # <<>> /\ line[1] = "\"" THEN Tail(line) ELSE line

\* an unindented line of name@range specifiers that ends with a colon
HeaderShaped(line) ==
    /\ ~BlankOrComment(line)
    /\ ~(line[1] \in Space)
    /\ line[Len(line)] = ":"
    /\ IndexFrom(Unquoted(line), "@", 2) > 0

\* the name of the first specifier: what precedes the first @ that does not
\* open the line
FirstSpecifierName(line) ==
    Slice(Unquoted(line), 1, IndexFrom(Unquoted(line), "@", 2) - 1)

SeveralSpecifiers(line) == IndexFrom(line, ",", 1) > 0

\* C22: after a header line currentPackage is the name of the first
\* specifier of the line, whatever it was before and however many
\* specifiers the line lists; a scoped name is captured with its @scope/.
C22_HeaderCapture ==
    \A k \in 1..Len(ys_log) :
        HeaderShaped(ys_log[k].line) =>
            /\ ys_log[k].after = FirstSpecifierName(ys_log[k].line)
            /\ Unquoted(ys_log[k].line)[1] = "@" =>
                  /\ ys_log[k].after[1] = "@"
                  /\ IndexFrom(ys_log[k].after, "/", 1) > 0

\* a header of two specifiers of a scoped name and a header of two
\* specifiers with different names have been read
C22_Witness ==
    /\ \E k \in 1..Len(ys_log) :
          /\ HeaderShaped(ys_log[k].line) /\ SeveralSpecifiers(ys_log[k].line)
          /\ ys_log[k].after = <<"@", "s", "/", "n">>
    /\ \E k \in 1..Len(ys_log) :
          /\ HeaderShaped(ys_log[k].line) /\ SeveralSpecifiers(ys_log[k].line)
          /\ ys_log[k].after = <<"b">>

----------------------------------------------------------------------------
(* Origin and integrity of the records of a yarn.lock *)

\* C25: no record in the map of a yarn.lock scan has a resolved URL, a
\* source type other than "unknown" or the sha512 flag set, whatever
\* resolved and integrity lines the text holds.
C25_NoOriginFromYarn ==
    \A i \in 1..Len(ys_dependencies) :
        /\ ys_dependencies[i].value.resolved = Undefined
        /\ ys_dependencies[i].value.source = "unknown"
        /\ ys_dependencies[i].value.sha512 = FALSE

\* a block with a resolved line naming the yarn registry and an integrity
\* line with a sha512 hash has been read and has given a record
C25_Witness ==
    /\ ys_dependencies # <<>>
    /\ \E k \in 1..Len(ys_log) : ys_log[k].line = Y_resolved
    /\ \E k \in 1..Len(ys_log) : ys_log[k].line = Y_integrity

----------------------------------------------------------------------------
(* parsePackageJson: lockfile or manifest *)

\* C27: what a package.json hands over is exactly what the lockfile beside
\* it yields or, when that lockfile is missing or its parse fails, exactly
\* the declarations of the manifest: nothing the lockfile gave before the
\* failure is in the result.
C27_NeverAMixture ==
    \A f \in 1..Len(gd_dependencyFiles) :
        LET file == gd_dependencyFiles[f]
            lockPath == Append(Dirname(file), F_packageLock)
            lock == ReadFile(gd_root, lockPath)
            pairs == {<<record.name, record.version>> : record \in EmittedBy(f)}
        IN  (/\ Finished(f)
             /\ Basename(file) = F_packageJson
             /\ ReadFile(gd_root, file).readable) =>
                IF CanBeRead(lock)
                THEN LET yield == parseDependencyFile(gd_root, lockPath).list
                     IN  pairs = {<<yield[i].name, yield[i].version>> : i \in 1..Len(yield)}
                ELSE pairs = DeclaredRanges(ReadFile(gd_root, file))

----------------------------------------------------------------------------
(* One NpmParser, several files *)

\* what a parse of the file finds: the list a new NpmParser returns for it
FoundIn(file) ==
    LET r == IF file.name = F_packageLock
             THEN parsePackageLock(<<>>, file.content)
             ELSE parseYarnLock(<<>>, file.content)
    IN  {r.list[i] : i \in 1..Len(r.list)}

\* C28: every list a parse call returns holds only dependencies found in
\* the file given to that call.
C28_OnlyFromThisFile ==
    \A k \in 1..Len(np_results) :
        \A i \in 1..Len(np_results[k].list) :
            np_results[k].list[i] \in FoundIn(np_results[k].file)

----------------------------------------------------------------------------
(* Termination of getDependencies *)

\* the object a path names below a directory when no link is followed
RECURSIVE Lstat(_, _)
Lstat(object, relative) ==
    IF relative = <<>> THEN object
    ELSE IF object.kind # "dir" THEN NoEntry
    ELSE Lstat(EntryNamed(object.entries, relative[1]), Tail(relative))

\* a discovered file as a path below the scanned directory
Below(file) == SubSeq(file, Len(gd_path) + 1, Len(file))

\* no file is discovered twice; below the scanned directory every discovered
\* path leads through directories only, never through a link, to a regular
\* file; a requirements.txt causes no more lookups than it has lines
BoundedWork ==
    /\ \A i, j \in 1..Len(gd_dependencyFiles) :
          gd_dependencyFiles[i] = gd_dependencyFiles[j] => i = j
    /\ Resolve(gd_root, gd_path).kind = "dir" =>
          \A i \in 1..Len(gd_dependencyFiles) :
              LET relative == Below(gd_dependencyFiles[i])
                  scanned == Resolve(gd_root, gd_path)
              IN  /\ Lstat(scanned, relative).kind = "file"
                  /\ \A n \in 0..(Len(relative) - 1) :
                        Lstat(scanned, SubSeq(relative, 1, n)).kind = "dir"
    /\ \A f \in 1..Len(gd_dependencyFiles) :
          (/\ Basename(gd_dependencyFiles[f]) = F_requirements
           /\ ReadFile(gd_root, gd_dependencyFiles[f]).readable) =>
              Cardinality(LookupsOf(f)) <= Len(ReadFile(gd_root, gd_dependencyFiles[f]).lines)

\* some statement of the call is left to execute
CanStep ==
    \/ AtStart
    \/ AtNpmFile \/ AtRequirementsTxt \/ AfterFiles
    \/ AtDependency /\ SkipsLookup(py_directDeps[py_depIndex])
    \/ AtDependency /\ ~SkipsLookup(py_directDeps[py_depIndex])
    \/ AwaitingLookup \/ AwaitingTimer
    \/ AfterDependencies

\* what is left of the call: the phase, the files left, whether the file
\* in turn is still to be opened, its dependencies left, and the awaits
\* left in the iteration for the dependency in turn
Remaining ==
    <<IF gd_pc = "start" THEN 2 ELSE IF gd_pc = "done" THEN 0 ELSE 1,
      IF gd_pc \in {"start", "done"} THEN 0
      ELSE Len(gd_dependencyFiles) + 1 - gd_fileIndex,
      IF gd_pc = "files" THEN 1 ELSE 0,
      IF gd_pc \in {"lookup", "fetching", "delay"}
      THEN Len(py_directDeps) + 1 - py_depIndex ELSE 0,
      IF gd_pc = "lookup" THEN 2 ELSE IF gd_pc = "fetching" THEN 1 ELSE 0>>

\* the lexicographic order of tuples of natural numbers of one length
LexLess(x, y) ==
    \E k \in 1..Len(x) : x[k] < y[k] /\ \A i \in 1..(k - 1) : x[i] = y[i]

\* C29: every getDependencies call ends, by returning or by an error: until
\* it has ended a statement is left to execute, what is left of the call is
\* a tuple of natural numbers that every step lowers in the lexicographic
\* order, and on the way the work stays bounded as BoundedWork says.
C29_Termination ==
    /\ [](gd_pc # "done" => CanStep)
    /\ [](\A k \in 1..Len(Remaining) : Remaining[k] \in Nat)
    /\ [][LexLess(Remaining', Remaining)]_vars
    /\ []BoundedWork

\* the scan of a directory that holds a link to itself and a
\* requirements.txt has ended after lookups
C29_Witness ==
    /\ gd_pc = "done"
    /\ \E i \in 1..Len(gd_root.entries) : gd_root.entries[i] = LoopLink
    /\ gd_dependencyFiles # <<>>
    /\ py_lookups # <<>>

=============================================================================
